---- MODULE Spec2Model ----
(***************************************************************************)
(* SignVision hybrid AR tracker (src/script.js): the track store, the      *)
(* association pass (updateTrackedObjects), the fusion pass                *)
(* (refineTrackedObjects), expiry, and the snapshot drawn by               *)
(* handleDetections.                                                       *)
(*                                                                         *)
(* Numbers.  The code computes in IEEE doubles on normalised [0,1]         *)
(* coordinates.  The model computes in fixed point:                        *)
(*   - box coordinates, velocities, camera motion: integers, 1/1000 of the *)
(*     normalised unit (Scale);                                            *)
(*   - confidences, smoothing factors: integers, 1/1000;                   *)
(*   - IoU values and match scores: integers, 1/1000000 (Micro);           *)
(*   - time: integer milliseconds, as Date.now().                          *)
(* A product that the code leaves unrounded is rounded to the nearest      *)
(* fixed-point value; NaN (0/0 in calculateIoU) is a value of its own.     *)
(***************************************************************************)
EXTENDS Integers, Sequences, FiniteSets, TLC

\* ---------------------------------------------------------------- numbers
Scale == 10 * 10 * 10
Micro == Scale * Scale
NaN == (0 - 2) * Scale * Micro

Max(a, b) == IF a >= b THEN a ELSE b
Min(a, b) == IF a <= b THEN a ELSE b
Abs(a) == IF a < 0 THEN 0 - a ELSE a

\* Math.max / Math.min : NaN if either argument is NaN
MathMax(a, b) == IF a = NaN \/ b = NaN THEN NaN ELSE Max(a, b)
MathMin(a, b) == IF a = NaN \/ b = NaN THEN NaN ELSE Min(a, b)

\* + , - and < of JS numbers: NaN if an operand is NaN, and a comparison
\* with NaN is false
Plus(a, b) == IF a = NaN \/ b = NaN THEN NaN ELSE a + b
Minus(a, b) == IF a = NaN \/ b = NaN THEN NaN ELSE a - b
Less(a, b) == a # NaN /\ b # NaN /\ a < b

\* round(n / d) to the nearest integer, d > 0 (half up)
RoundDiv(n, d) == (2 * n + d) \div (2 * d)

\* floor(sqrt(n)), n >= 0 : Math.sqrt on the fixed-point grid
RECURSIVE SqrtSearch(_, _, _)
SqrtSearch(n, lo, hi) ==
    IF lo >= hi THEN lo
    ELSE LET mid == (lo + hi + 1) \div 2
         IN  IF mid * mid <= n THEN SqrtSearch(n, mid, hi)
                               ELSE SqrtSearch(n, lo, mid - 1)
MathSqrt(n) == SqrtSearch(n, 0, Min(n, 46340))

\* n / d in Micro units (truncated), by long division so that no
\* intermediate product leaves 32 bits; 0/0 and x/0 follow the code's use
\* (only 0/0 arises: NaN)
FixDiv(n, d) ==
    IF d = 0 THEN NaN
    ELSE LET an == Abs(n)
             ad == Abs(d)
             q1 == (an * Scale) \div ad
             r1 == (an * Scale) % ad
             q2 == (r1 * Scale) \div ad
             q  == q1 * Scale + q2
         IN  IF (n < 0) = (d < 0) THEN q ELSE 0 - q

\* ------------------------------------------------------- program constants
\* App.config.minConfidence: 0.3
minConfidence == 300
\* App.trackingThreshold: 0.2 (an IoU, in Micro)
trackingThreshold == 200000
\* App.smoothingFactor: 0.3
smoothingFactor == 300
\* App.maxTrackingAge: 2000 ms
maxTrackingAge == 2000
\* App.maxMissedFrames: 10
maxMissedFrames == 10
\* refineTrackedObjects: iou > 0.3 (an IoU, in Micro)
fusionThreshold == 300000
\* updateTrackedObjects: centerDist < 0.3 (a distance, in 1/2000: see
\* calculateCenterDistance)
centerDistThreshold == 600
\* updateTrackedObjects: Math.min(..., 0.6)
maxSmoothingFactor == 600

\* ------------------------------------------------------------ geometry
\* calculateCenterDistance, squared, in half-units: the centres are
\* x + w/2, so twice the centre is 2x + w and the squared distance is kept
\* in (1/2000)^2 units until the root is taken
CenterDist2(bbox1, bbox2) ==
    LET cx1 == 2 * bbox1[1] + bbox1[3]
        cy1 == 2 * bbox1[2] + bbox1[4]
        cx2 == 2 * bbox2[1] + bbox2[3]
        cy2 == 2 * bbox2[2] + bbox2[4]
    IN  IF \E k \in 1..4 : bbox1[k] = NaN \/ bbox2[k] = NaN THEN NaN
        ELSE (cx1 - cx2) * (cx1 - cx2) + (cy1 - cy2) * (cy1 - cy2)

\* calculateCenterDistance, in 1/2000 of the normalised unit (rounded down)
calculateCenterDistance(bbox1, bbox2) ==
    LET d2 == CenterDist2(bbox1, bbox2)
    IN  IF d2 = NaN THEN NaN ELSE MathSqrt(d2)

\* calculateIoU, in Micro units
calculateIoU(bbox1, bbox2) ==
    LET x1 == bbox1[1]
        y1 == bbox1[2]
        w1 == bbox1[3]
        h1 == bbox1[4]
        x2 == bbox2[1]
        y2 == bbox2[2]
        w2 == bbox2[3]
        h2 == bbox2[4]
        xLeft == Max(x1, x2)
        yTop == Max(y1, y2)
        xRight == Min(x1 + w1, x2 + w2)
        yBottom == Min(y1 + h1, y2 + h2)
        intersectionArea == (xRight - xLeft) * (yBottom - yTop)
        bbox1Area == w1 * h1
        bbox2Area == w2 * h2
        unionArea == bbox1Area + bbox2Area - intersectionArea
        \* a NaN among the components of an axis makes xLeft or xRight
        \* (yTop or yBottom) NaN: its comparison is false, the areas NaN
        xNaN == x1 = NaN \/ w1 = NaN \/ x2 = NaN \/ w2 = NaN
        yNaN == y1 = NaN \/ h1 = NaN \/ y2 = NaN \/ h2 = NaN
    IN  IF (~xNaN /\ xRight < xLeft) \/ (~yNaN /\ yBottom < yTop) THEN 0
        ELSE IF xNaN \/ yNaN THEN NaN
        ELSE FixDiv(intersectionArea, unionArea)

\* calculateVelocity
calculateVelocity(oldBbox, newBbox) ==
    << newBbox[1] - oldBbox[1], newBbox[2] - oldBbox[2],
       newBbox[3] - oldBbox[3], newBbox[4] - oldBbox[4] >>

\* smoothBoundingBox; alpha in 1/1000.  The model's boxes are always
\* defined, so the !oldBbox branch is not taken.
smoothBoundingBox(oldBbox, newBbox, alpha) ==
    << RoundDiv(oldBbox[1] * (Scale - alpha) + newBbox[1] * alpha, Scale),
       RoundDiv(oldBbox[2] * (Scale - alpha) + newBbox[2] * alpha, Scale),
       RoundDiv(oldBbox[3] * (Scale - alpha) + newBbox[3] * alpha, Scale),
       RoundDiv(oldBbox[4] * (Scale - alpha) + newBbox[4] * alpha, Scale) >>

\* ------------------------------------------------------------ track store
\* App.trackedObjects is a Map keyed by the ids handed out by nextObjectId.
\* A Map iterates in insertion order; keys are only ever inserted under a
\* fresh, larger id, so insertion order is ascending id order.
NoMatch == 0 - 1

RECURSIVE SortedIds(_)
SortedIds(S) ==
    IF S = {} THEN << >>
    ELSE LET m == CHOOSE x \in S : \A y \in S : x <= y
         IN  << m >> \o SortedIds(S \ {m})

\* NewTrack that starts a track as missed once
NewTrackMissedOnce(id, detection, lastSeen, geminiRefined) ==
    [ id |-> id,
      label |-> detection.label,
      bbox |-> detection.bbox,
      smoothedBbox |-> detection.bbox,
      predictedBbox |-> detection.bbox,
      color |-> detection.color,
      confidence |-> detection.confidence,
      lastSeen |-> lastSeen,
      velocity |-> << 0, 0, 0, 0 >>,
      missedFrames |-> 1,
      matched |-> TRUE,
      geminiRefined |-> geminiRefined ]

\* the object literal of trackedObjects.set(id, {...}) in updateTrackedObjects
\* and refineTrackedObjects (they differ in lastSeen and geminiRefined)
NewTrack(id, detection, lastSeen, geminiRefined) ==
    [ id |-> id,
      label |-> detection.label,
      bbox |-> detection.bbox,
      smoothedBbox |-> detection.bbox,
      predictedBbox |-> detection.bbox,
      color |-> detection.color,
      confidence |-> detection.confidence,
      lastSeen |-> lastSeen,
      velocity |-> << 0, 0, 0, 0 >>,
      missedFrames |-> 0,
      matched |-> TRUE,
      geminiRefined |-> geminiRefined ]

\* ------------------------------------------------ updateTrackedObjects
\* PredictTrack that moves the track to its predicted box
PredictTrackMovesBox(obj, cam) ==
    LET missed == obj.missedFrames + 1
        predicted ==
            IF missed <= maxMissedFrames
            THEN << Minus(Plus(obj.smoothedBbox[1], obj.velocity[1]), cam.dx),
                    Minus(Plus(obj.smoothedBbox[2], obj.velocity[2]), cam.dy),
                    Plus(obj.smoothedBbox[3], RoundDiv(obj.velocity[3], 2)),
                    Plus(obj.smoothedBbox[4], RoundDiv(obj.velocity[4], 2)) >>
            ELSE obj.smoothedBbox
    IN  [obj EXCEPT
           !.matched = FALSE,
           !.missedFrames = missed,
           !.predictedBbox = predicted,
           !.smoothedBbox = predicted]

\* PredictTrack that extrapolates from the box predicted the pass before
PredictTrackFromPredicted(obj, cam) ==
    LET missed == obj.missedFrames + 1
    IN  [obj EXCEPT
           !.matched = FALSE,
           !.missedFrames = missed,
           !.predictedBbox =
               IF missed <= maxMissedFrames
               THEN << Minus(Plus(obj.predictedBbox[1], obj.velocity[1]), cam.dx),
                       Minus(Plus(obj.predictedBbox[2], obj.velocity[2]), cam.dy),
                       Plus(obj.predictedBbox[3], RoundDiv(obj.velocity[3], 2)),
                       Plus(obj.predictedBbox[4], RoundDiv(obj.velocity[4], 2)) >>
               ELSE obj.smoothedBbox]

\* "Predict positions": one track
PredictTrack(obj, cam) ==
    LET missed == obj.missedFrames + 1
    IN  [obj EXCEPT
           !.matched = FALSE,
           !.missedFrames = missed,
           !.predictedBbox =
               IF missed <= maxMissedFrames
               THEN << Minus(Plus(obj.smoothedBbox[1], obj.velocity[1]), cam.dx),
                       Minus(Plus(obj.smoothedBbox[2], obj.velocity[2]), cam.dy),
                       Plus(obj.smoothedBbox[3], RoundDiv(obj.velocity[3], 2)),
                       Plus(obj.smoothedBbox[4], RoundDiv(obj.velocity[4], 2)) >>
               ELSE obj.smoothedBbox]

\* PredictPhase that drops a track as soon as its missed frames pass the cap
PredictPhaseDropsLost(store, cam) ==
    [id \in { k \in DOMAIN store : store[k].missedFrames + 1 <= maxMissedFrames } |->
        PredictTrack(store[id], cam)]

PredictPhase(store, cam) == [id \in DOMAIN store |-> PredictTrack(store[id], cam)]

\* iou = Math.max(iouPredicted, iouCurrent)
MatchIoU(detection, trackedObj) ==
    MathMax(calculateIoU(detection.bbox, trackedObj.predictedBbox),
            calculateIoU(detection.bbox, trackedObj.smoothedBbox))

\* score = iou * 0.7 + (1 / (1 + centerDist)) * 0.3, in Micro
MatchScore(detection, trackedObj) ==
    LET iou == MatchIoU(detection, trackedObj)
        centerDist == calculateCenterDistance(detection.bbox, trackedObj.smoothedBbox)
    IN  IF iou = NaN \/ centerDist = NaN THEN NaN
        ELSE RoundDiv(iou * 7, 10)
             + RoundDiv(300 * Scale * 2 * Scale, 2 * Scale + centerDist)

\* iou > this.trackingThreshold || centerDist < 0.3
Qualifies(detection, trackedObj) ==
    LET iou == MatchIoU(detection, trackedObj)
        centerDist == calculateCenterDistance(detection.bbox, trackedObj.smoothedBbox)
    IN  Less(trackingThreshold, iou) \/ Less(centerDist, centerDistThreshold)

\* ConsiderTrack with score >= bestScore in place of score > bestScore
ConsiderTrackTakesLastOfEquals(best, trackedObj, detection) ==
    LET score == MatchScore(detection, trackedObj)
    IN  IF trackedObj.matched THEN best
        ELSE IF score # NaN /\ score >= best.score /\ Qualifies(detection, trackedObj)
             THEN [id |-> trackedObj.id, score |-> score]
             ELSE best

\* ConsiderTrack without its "if (trackedObj.matched) return"
ConsiderTrackIgnoringMatched(best, trackedObj, detection) ==
    LET score == MatchScore(detection, trackedObj)
    IN  IF score # NaN /\ score > best.score /\ Qualifies(detection, trackedObj)
        THEN [id |-> trackedObj.id, score |-> score]
        ELSE best

\* the body of the inner trackedObjects.forEach of the matching loop, for
\* one trackedObj; best = [id, score] is (bestMatch, bestScore)
ConsiderTrack(best, trackedObj, detection) ==
    LET score == MatchScore(detection, trackedObj)
    IN  IF trackedObj.matched THEN best
        ELSE IF score # NaN /\ score > best.score /\ Qualifies(detection, trackedObj)
             THEN [id |-> trackedObj.id, score |-> score]
             ELSE best

\* the inner trackedObjects.forEach; ids is what is left of the iteration
RECURSIVE ScanTracks(_, _, _, _)
ScanTracks(store, detection, ids, best) ==
    IF ids = << >> THEN best
    ELSE ScanTracks(store, detection, Tail(ids),
                    ConsiderTrack(best, store[Head(ids)], detection))

FindBestMatch(store, detection) ==
    ScanTracks(store, detection, SortedIds(DOMAIN store), [id |-> NoMatch, score |-> 0])

\* UpdateMatched without its "if (!bestMatch.geminiRefined)": the detection's
\* label and color always overwrite the track's
UpdateMatchedRelabels(bestMatch, detection, currentTime) ==
    LET newVelocity == calculateVelocity(bestMatch.bbox, detection.bbox)
        velocityMagnitude ==
            MathSqrt(newVelocity[1] * newVelocity[1] + newVelocity[2] * newVelocity[2])
        adaptiveSmoothingFactor ==
            Min(smoothingFactor + velocityMagnitude * 2, maxSmoothingFactor)
    IN  [bestMatch EXCEPT
           !.matched = TRUE,
           !.missedFrames = 0,
           !.lastSeen = currentTime,
           !.confidence = detection.confidence,
           !.label = detection.label,
           !.color = detection.color,
           !.velocity = << RoundDiv(bestMatch.velocity[1] * 7 + newVelocity[1] * 3, 10),
                           RoundDiv(bestMatch.velocity[2] * 7 + newVelocity[2] * 3, 10),
                           RoundDiv(bestMatch.velocity[3] * 7 + newVelocity[3] * 3, 10),
                           RoundDiv(bestMatch.velocity[4] * 7 + newVelocity[4] * 3, 10) >>,
           !.bbox = detection.bbox,
           !.smoothedBbox = smoothBoundingBox(bestMatch.smoothedBbox, detection.bbox,
                                              adaptiveSmoothingFactor)]

\* UpdateMatched that puts the track on the detection's box at once
UpdateMatchedSnaps(bestMatch, detection, currentTime) ==
    LET newVelocity == calculateVelocity(bestMatch.bbox, detection.bbox)
    IN  [bestMatch EXCEPT
           !.matched = TRUE,
           !.missedFrames = 0,
           !.lastSeen = currentTime,
           !.confidence = detection.confidence,
           !.label = IF bestMatch.geminiRefined THEN @ ELSE detection.label,
           !.color = IF bestMatch.geminiRefined THEN @ ELSE detection.color,
           !.velocity = << RoundDiv(bestMatch.velocity[1] * 7 + newVelocity[1] * 3, 10),
                           RoundDiv(bestMatch.velocity[2] * 7 + newVelocity[2] * 3, 10),
                           RoundDiv(bestMatch.velocity[3] * 7 + newVelocity[3] * 3, 10),
                           RoundDiv(bestMatch.velocity[4] * 7 + newVelocity[4] * 3, 10) >>,
           !.bbox = detection.bbox,
           !.smoothedBbox = detection.bbox]

\* UpdateMatched without its bestMatch.missedFrames = 0
UpdateMatchedKeepsMisses(bestMatch, detection, currentTime) ==
    LET newVelocity == calculateVelocity(bestMatch.bbox, detection.bbox)
        velocityMagnitude ==
            MathSqrt(newVelocity[1] * newVelocity[1] + newVelocity[2] * newVelocity[2])
        adaptiveSmoothingFactor ==
            Min(smoothingFactor + velocityMagnitude * 2, maxSmoothingFactor)
    IN  [bestMatch EXCEPT
           !.matched = TRUE,
           !.lastSeen = currentTime,
           !.confidence = detection.confidence,
           !.label = IF bestMatch.geminiRefined THEN @ ELSE detection.label,
           !.color = IF bestMatch.geminiRefined THEN @ ELSE detection.color,
           !.velocity = << RoundDiv(bestMatch.velocity[1] * 7 + newVelocity[1] * 3, 10),
                           RoundDiv(bestMatch.velocity[2] * 7 + newVelocity[2] * 3, 10),
                           RoundDiv(bestMatch.velocity[3] * 7 + newVelocity[3] * 3, 10),
                           RoundDiv(bestMatch.velocity[4] * 7 + newVelocity[4] * 3, 10) >>,
           !.bbox = detection.bbox,
           !.smoothedBbox = smoothBoundingBox(bestMatch.smoothedBbox, detection.bbox,
                                              adaptiveSmoothingFactor)]

\* UpdateMatched that hands a matched track back to the fast source: the
\* lock is cleared, the label left alone
UpdateMatchedUnlocks(bestMatch, detection, currentTime) ==
    LET newVelocity == calculateVelocity(bestMatch.bbox, detection.bbox)
        velocityMagnitude ==
            MathSqrt(newVelocity[1] * newVelocity[1] + newVelocity[2] * newVelocity[2])
        adaptiveSmoothingFactor ==
            Min(smoothingFactor + velocityMagnitude * 2, maxSmoothingFactor)
    IN  [bestMatch EXCEPT
           !.matched = TRUE,
           !.missedFrames = 0,
           !.lastSeen = currentTime,
           !.confidence = detection.confidence,
           !.geminiRefined = FALSE,
           !.velocity = << RoundDiv(bestMatch.velocity[1] * 7 + newVelocity[1] * 3, 10),
                           RoundDiv(bestMatch.velocity[2] * 7 + newVelocity[2] * 3, 10),
                           RoundDiv(bestMatch.velocity[3] * 7 + newVelocity[3] * 3, 10),
                           RoundDiv(bestMatch.velocity[4] * 7 + newVelocity[4] * 3, 10) >>,
           !.bbox = detection.bbox,
           !.smoothedBbox = smoothBoundingBox(bestMatch.smoothedBbox, detection.bbox,
                                              adaptiveSmoothingFactor)]

\* "Update existing": the body of if (bestMatch)
UpdateMatched(bestMatch, detection, currentTime) ==
    LET newVelocity == calculateVelocity(bestMatch.bbox, detection.bbox)
        velocityMagnitude ==
            MathSqrt(newVelocity[1] * newVelocity[1] + newVelocity[2] * newVelocity[2])
        adaptiveSmoothingFactor ==
            Min(smoothingFactor + velocityMagnitude * 2, maxSmoothingFactor)
    IN  [bestMatch EXCEPT
           !.matched = TRUE,
           !.missedFrames = 0,
           !.lastSeen = currentTime,
           !.confidence = detection.confidence,
           !.label = IF bestMatch.geminiRefined THEN @ ELSE detection.label,
           !.color = IF bestMatch.geminiRefined THEN @ ELSE detection.color,
           !.velocity = << RoundDiv(bestMatch.velocity[1] * 7 + newVelocity[1] * 3, 10),
                           RoundDiv(bestMatch.velocity[2] * 7 + newVelocity[2] * 3, 10),
                           RoundDiv(bestMatch.velocity[3] * 7 + newVelocity[3] * 3, 10),
                           RoundDiv(bestMatch.velocity[4] * 7 + newVelocity[4] * 3, 10) >>,
           !.bbox = detection.bbox,
           !.smoothedBbox = smoothBoundingBox(bestMatch.smoothedBbox, detection.bbox,
                                              adaptiveSmoothingFactor)]

\* MatchStep in which a detection under the confidence floor still takes
\* the track it matches out of the matching
MatchStepFaintBlocks(st, detection, currentTime) ==
    LET best == FindBestMatch(st.store, detection)
    IN  IF detection.confidence < minConfidence
        THEN [st EXCEPT
                !.store = IF best.id # NoMatch
                          THEN [@ EXCEPT ![best.id] = [@ EXCEPT !.matched = TRUE]]
                          ELSE @,
                !.assoc = Append(@, [kind |-> "filtered", id |-> NoMatch])]
        ELSE IF best.id # NoMatch
             THEN [st EXCEPT
                     !.store = [@ EXCEPT ![best.id] =
                                   UpdateMatched(@, detection, currentTime)],
                     !.assoc = Append(@, [kind |-> "matched", id |-> best.id])]
             ELSE [st EXCEPT
                     !.unmatched = Append(@, detection),
                     !.assoc = Append(@, [kind |-> "unmatched", id |-> NoMatch])]

\* the body of detections.forEach ("Match detections"), for one detection.
\* st = [store, unmatched, assoc]; assoc records, per detection of the
\* batch, what the body did with it: filtered by confidence, matched to
\* bestMatch.id, or pushed to unmatchedDetections.
MatchStep(st, detection, currentTime) ==
    LET best == FindBestMatch(st.store, detection)
    IN  IF detection.confidence < minConfidence
        THEN [st EXCEPT !.assoc = Append(@, [kind |-> "filtered", id |-> NoMatch])]
        ELSE IF best.id # NoMatch
             THEN [st EXCEPT
                     !.store = [@ EXCEPT ![best.id] =
                                   UpdateMatched(@, detection, currentTime)],
                     !.assoc = Append(@, [kind |-> "matched", id |-> best.id])]
             ELSE [st EXCEPT
                     !.unmatched = Append(@, detection),
                     !.assoc = Append(@, [kind |-> "unmatched", id |-> NoMatch])]

\* MatchLoop that takes the detections of the batch last first
RECURSIVE MatchLoopLastFirst(_, _, _)
MatchLoopLastFirst(st, detections, currentTime) ==
    IF detections = << >> THEN st
    ELSE LET rest == MatchLoopLastFirst([st EXCEPT !.assoc = << >>],
                                        Tail(detections), currentTime)
             first == MatchStep([rest EXCEPT !.assoc = << >>], Head(detections), currentTime)
         IN  [first EXCEPT !.assoc = st.assoc \o first.assoc \o rest.assoc]

RECURSIVE MatchLoop(_, _, _)
MatchLoop(st, detections, currentTime) ==
    IF detections = << >> THEN st
    ELSE MatchLoop(MatchStep(st, Head(detections), currentTime),
                   Tail(detections), currentTime)

\* CreateLoop that stops after the first unmatched detection
CreateLoopFirstOnly(store, nextId, unmatched, currentTime) ==
    IF unmatched = << >> THEN [store |-> store, nextObjectId |-> nextId]
    ELSE [store |-> [id \in DOMAIN store \cup {nextId} |->
                        IF id = nextId
                        THEN NewTrack(nextId, Head(unmatched), currentTime, FALSE)
                        ELSE store[id]],
          nextObjectId |-> nextId + 1]

\* CreateLoop that takes the smallest id no track of the store holds
RECURSIVE CreateLoopReusingIds(_, _, _, _)
CreateLoopReusingIds(store, nextId, unmatched, currentTime) ==
    IF unmatched = << >> THEN [store |-> store, nextObjectId |-> nextId]
    ELSE LET free == CHOOSE k \in 0..nextId :
                        k \notin DOMAIN store /\ \A j \in 0..(k - 1) : j \in DOMAIN store
         IN  CreateLoopReusingIds(
               [id \in DOMAIN store \cup {free} |->
                   IF id = free THEN NewTrack(free, Head(unmatched), currentTime, FALSE)
                   ELSE store[id]],
               Max(nextId, free + 1), Tail(unmatched), currentTime)

\* CreateLoop that lets a detection fall on a track created earlier in the
\* same loop when their boxes coincide
RECURSIVE CreateLoopSeesCreated(_, _, _, _)
CreateLoopSeesCreated(store, nextId, unmatched, currentTime) ==
    IF unmatched = << >> THEN [store |-> store, nextObjectId |-> nextId]
    ELSE IF \E id \in DOMAIN store :
               /\ store[id].lastSeen = currentTime
               /\ store[id].velocity = << 0, 0, 0, 0 >>
               /\ store[id].smoothedBbox = Head(unmatched).bbox
         THEN CreateLoopSeesCreated(store, nextId, Tail(unmatched), currentTime)
         ELSE CreateLoopSeesCreated(
                [id \in DOMAIN store \cup {nextId} |->
                    IF id = nextId
                    THEN NewTrack(nextId, Head(unmatched), currentTime, FALSE)
                    ELSE store[id]],
                nextId + 1, Tail(unmatched), currentTime)

\* "Create new tracked objects": unmatchedDetections.forEach
RECURSIVE CreateLoop(_, _, _, _)
CreateLoop(store, nextId, unmatched, currentTime) ==
    IF unmatched = << >> THEN [store |-> store, nextObjectId |-> nextId]
    ELSE CreateLoop(
           [id \in DOMAIN store \cup {nextId} |->
               IF id = nextId THEN NewTrack(nextId, Head(unmatched), currentTime, FALSE)
               ELSE store[id]],
           nextId + 1, Tail(unmatched), currentTime)

\* IdsToRemove with age >= maxTrackingAge in place of age > maxTrackingAge
IdsToRemoveAtBound(store, currentTime) ==
    { id \in DOMAIN store :
        LET age == currentTime - store[id].lastSeen
        IN  age >= maxTrackingAge \/ store[id].missedFrames > maxMissedFrames }

\* "Remove stale objects": the ids pushed to idsToRemove
IdsToRemove(store, currentTime) ==
    { id \in DOMAIN store :
        LET age == currentTime - store[id].lastSeen
        IN  age > maxTrackingAge \/ store[id].missedFrames > maxMissedFrames }

\* RemoveStale that looks at the missed frames only, not at the age
RemoveStaleByMissedFramesOnly(store, currentTime) ==
    [id \in { k \in DOMAIN store : store[k].missedFrames <= maxMissedFrames } |-> store[id]]

RemoveStale(store, currentTime) ==
    [id \in DOMAIN store \ IdsToRemove(store, currentTime) |-> store[id]]

\* updateTrackedObjects with the stale-object sweep ahead of the matching
updateTrackedObjectsSweepsFirst(store, nextId, cam, detections, currentTime) ==
    LET predicted == PredictPhase(store, cam)
        kept == RemoveStale(predicted, currentTime)
        matchedSt == MatchLoop([store |-> kept, unmatched |-> << >>, assoc |-> << >>],
                               detections, currentTime)
        created == CreateLoop(matchedSt.store, nextId, matchedSt.unmatched, currentTime)
    IN  [ trackedObjects |-> created.store,
          nextObjectId |-> created.nextObjectId,
          predicted |-> predicted,
          assoc |-> matchedSt.assoc,
          beforeExpiry |-> created.store ]

\* updateTrackedObjects(detections, currentTime): the store and nextObjectId
\* it leaves, and what it did on the way (predicted: after the predict phase;
\* assoc: the matching loop's decisions; beforeExpiry: the store when the
\* stale-object sweep starts)
updateTrackedObjects(store, nextId, cam, detections, currentTime) ==
    LET predicted == PredictPhase(store, cam)
        matchedSt == MatchLoop([store |-> predicted, unmatched |-> << >>, assoc |-> << >>],
                               detections, currentTime)
        created == CreateLoop(matchedSt.store, nextId, matchedSt.unmatched, currentTime)
    IN  [ trackedObjects |-> RemoveStale(created.store, currentTime),
          nextObjectId |-> created.nextObjectId,
          predicted |-> predicted,
          assoc |-> matchedSt.assoc,
          beforeExpiry |-> created.store ]

\* ------------------------------------------------ refineTrackedObjects
\* ConsiderFusion with iou >= 0.3 in place of iou > 0.3
ConsiderFusionAtThreshold(best, tracked, geminiDet) ==
    LET iou == calculateIoU(geminiDet.bbox, tracked.smoothedBbox)
    IN  IF iou # NaN /\ iou > best.iou /\ iou >= fusionThreshold
        THEN [id |-> tracked.id, iou |-> iou]
        ELSE best

\* the body of the trackedObjects.forEach of refineTrackedObjects, for one
\* tracked object; best = [id, iou] is (bestMatch, bestIoU)
ConsiderFusion(best, tracked, geminiDet) ==
    LET iou == calculateIoU(geminiDet.bbox, tracked.smoothedBbox)
    IN  IF iou # NaN /\ iou > best.iou /\ iou > fusionThreshold
        THEN [id |-> tracked.id, iou |-> iou]
        ELSE best

RECURSIVE ScanFusion(_, _, _, _)
ScanFusion(store, geminiDet, ids, best) ==
    IF ids = << >> THEN best
    ELSE ScanFusion(store, geminiDet, Tail(ids),
                    ConsiderFusion(best, store[Head(ids)], geminiDet))

FindFusionMatch(store, geminiDet) ==
    ScanFusion(store, geminiDet, SortedIds(DOMAIN store), [id |-> NoMatch, iou |-> 0])

\* UpgradeLabel that also takes the box of the Gemini detection
UpgradeLabelAndBox(bestMatch, geminiDet) ==
    [bestMatch EXCEPT
       !.label = geminiDet.label,
       !.color = geminiDet.color,
       !.geminiRefined = TRUE,
       !.bbox = geminiDet.bbox,
       !.smoothedBbox = geminiDet.bbox]

\* UpgradeLabel that also counts the fusion as a sighting
UpgradeLabelResetsMisses(bestMatch, geminiDet) ==
    [bestMatch EXCEPT
       !.label = geminiDet.label,
       !.color = geminiDet.color,
       !.geminiRefined = TRUE,
       !.missedFrames = 0]

\* "Upgrade label if match found": the body of if (bestMatch)
UpgradeLabel(bestMatch, geminiDet) ==
    [bestMatch EXCEPT
       !.label = geminiDet.label,
       !.color = geminiDet.color,
       !.geminiRefined = TRUE]

\* the body of geminiDetections.forEach, for one detection.
\* st = [store, nextObjectId, fused]; fused records, per detection, the
\* store it was matched against (at) and what was done (upgraded
\* bestMatch.id, or created id).  dateNow is Date.now(), taken as one value
\* for the whole pass.
FusionStep(st, geminiDet, dateNow) ==
    LET best == FindFusionMatch(st.store, geminiDet)
        id == st.nextObjectId
    IN  IF best.id # NoMatch
        THEN [st EXCEPT
                !.store = [@ EXCEPT ![best.id] = UpgradeLabel(@, geminiDet)],
                !.fused = Append(@, [kind |-> "upgraded", id |-> best.id,
                                     at |-> st.store])]
        ELSE [st EXCEPT
                !.store = [k \in DOMAIN st.store \cup {id} |->
                              IF k = id THEN NewTrack(id, geminiDet, dateNow, TRUE)
                              ELSE st.store[k]],
                !.nextObjectId = id + 1,
                !.fused = Append(@, [kind |-> "created", id |-> id, at |-> st.store])]

RECURSIVE FusionLoop(_, _, _)
FusionLoop(st, geminiDetections, dateNow) ==
    IF geminiDetections = << >> THEN st
    ELSE FusionLoop(FusionStep(st, Head(geminiDetections), dateNow),
                    Tail(geminiDetections), dateNow)

\* refineTrackedObjects followed by the stale-object sweep
refineThenRemoveStale(store, nextId, geminiDetections, dateNow) ==
    LET st == FusionLoop([store |-> store, nextObjectId |-> nextId, fused |-> << >>],
                         geminiDetections, dateNow)
    IN  [st EXCEPT !.store = RemoveStale(@, dateNow)]

\* refineTrackedObjects(geminiDetections): the store and nextObjectId it
\* leaves, and what it did for each detection
refineTrackedObjects(store, nextId, geminiDetections, dateNow) ==
    FusionLoop([store |-> store, nextObjectId |-> nextId, fused |-> << >>],
               geminiDetections, dateNow)

\* ------------------------------------------------------ handleDetections
\* trackedObj.label.includes('Analyzing'): the labels of the model that
\* contain the word
AnalyzingLabels == { "Analyzing Sign..." }

\* DrawnDetections that draws every track as a fresh detection
DrawnDetectionsNeverPredicted(store) ==
    [id \in { k \in DOMAIN store : store[k].label \notin AnalyzingLabels } |->
        [ label |-> store[id].label,
          bbox |-> store[id].smoothedBbox,
          color |-> store[id].color,
          confidence |-> store[id].confidence,
          isTracked |-> FALSE,
          geminiRefined |-> store[id].geminiRefined ]]

\* DrawnDetections that draws every track at its predicted box
DrawnDetectionsAlwaysPredicted(store) ==
    [id \in { k \in DOMAIN store : store[k].label \notin AnalyzingLabels } |->
        [ label |-> store[id].label,
          bbox |-> store[id].predictedBbox,
          color |-> store[id].color,
          confidence |-> store[id].confidence,
          isTracked |-> store[id].missedFrames > 0,
          geminiRefined |-> store[id].geminiRefined ]]

\* "Draw all tracked objects": the detection objects handed to
\* drawDetection, keyed here by the id of the track each was drawn from.
\* trackedObj.hide is never set on a track (the object literals above have
\* no hide field).
DrawnDetections(store) ==
    [id \in { k \in DOMAIN store : store[k].label \notin AnalyzingLabels } |->
        [ label |-> store[id].label,
          bbox |-> IF store[id].missedFrames > 0 THEN store[id].predictedBbox
                   ELSE store[id].smoothedBbox,
          color |-> store[id].color,
          confidence |-> store[id].confidence,
          isTracked |-> store[id].missedFrames > 0,
          geminiRefined |-> store[id].geminiRefined ]]

\* ------------------------------------------------------------- inputs
\* bounds of the exploration
MaxBatch == 2
MaxObjects == 2
MaxPasses == 3
MaxLongPasses == 13
MaxPacePasses == 12
MaxDriftPasses == 4
MaxMatchPasses == 3
MaxPredictPasses == 12
MaxFilterPasses == 3
MaxAnnounce == 3
MaxRecordTime == 60000
RecordStep == 5000
\* bits in the significand of the numbers given to smoothBoundingBox
\* (an IEEE double has 53)
SignificandBits == 4
MaxStallPasses == 5
MaxTime == 2013

\* App.config.processingInterval: 100 ms, the pace of the fast cycle
processingInterval == 100

\* what the fast detector path (convertPredictionsToDetections) can hand to
\* handleDetections
StopSign ==
    [label |-> "Stop Sign", bbox |-> << 100, 100, 200, 200 >>, color |-> "red",
     confidence |-> 900]
\* an overlapping box, shifted right, under another label
ShiftedSignal ==
    [label |-> "Traffic Signal", bbox |-> << 120, 100, 200, 200 >>, color |-> "yellow",
     confidence |-> 800]
\* a detection under the confidence floor
FaintSignal ==
    [label |-> "Traffic Signal", bbox |-> << 100, 100, 200, 200 >>, color |-> "yellow",
     confidence |-> 200]
\* a region found by detectGenericSigns, far from the others
GenericSign ==
    [label |-> "Analyzing Sign...", bbox |-> << 600, 600, 200, 200 >>, color |-> "yellow",
     confidence |-> 300]

\* what the Gemini response (data.detections) can hold
\* IoU 0.5 with the stop sign's box
SpeedLimit ==
    [label |-> "Speed Limit 25", bbox |-> << 100, 100, 200, 100 >>, color |-> "green",
     confidence |-> 950]
\* IoU exactly 0.3 with the stop sign's box
YieldSign ==
    [label |-> "Yield", bbox |-> << 100, 100, 60, 200 >>, color |-> "red",
     confidence |-> 700]

FastDetections == { StopSign, ShiftedSignal, FaintSignal }
GeminiDetections == { SpeedLimit, YieldSign }

SeqsUpTo(S, n) == UNION { [1..k -> S] : k \in 0..n }

\* long runs: few batches, and Date.now() advancing by 1 ms or by 2 s
\* between two passes (a detector call that returns at once; a stall or a
\* pause)
LongFastBatches == { << >>, << StopSign >>, << GenericSign >> }
LongGeminiBatches == { << SpeedLimit >> }
LongTimeSteps == { 1, 2000 }

\* deviceorientation readings: gamma, in degrees
GyroAngles == { 0, 1 }

\* -------------------------------------------------------------- state
VARIABLES
    trackedObjects,   \* App.trackedObjects
    nextObjectId,     \* App.nextObjectId
    cameraMotion,     \* App.cameraMotion
    lastGyro,         \* App.lastGyro
    now,              \* the last value read from Date.now()
    snapshot,         \* what the last handleDetections drew on the overlay
    passes,           \* number of passes run so far (bounds the exploration)
    last,             \* the last pass: its input and what its loops did
    streak,           \* per track: the consecutive fast passes, up to the last
                      \* one, in which no detection was matched to it
    isRunning,        \* App.isRunning
    isPaused,         \* App.isPaused
    isProcessing,     \* App.isProcessing
    geminiProcessing, \* App.geminiProcessing
    lastProcessTime,  \* App.lastProcessTime
    lastGeminiTime,   \* App.lastGeminiTime
    rafPending,       \* detectionLoop callbacks queued by requestAnimationFrame
    fastPending,      \* cocoModel.detect calls that have not settled yet
    geminiPending,    \* refineLabelsWithGemini calls suspended at an await
    assocPc,          \* where the running handleDetections call is, if one runs
    fusionPc,         \* where the running refineTrackedObjects call is
    fusionQueue,      \* what its geminiDetections.forEach has left to visit
    passStore,        \* the store as the running pass last left it
    fastStartedAt,    \* when the last cocoModel.detect call was made
    callHistory,      \* per cycle: whether a call failed, and another started since
    loopLast,         \* the last orchestrator event and what it decided
    audioEnabled,     \* App.audioEnabled
    announcedLabels,  \* App.announcedLabels
    audioQueue,       \* App.audioQueue; an entry is a label and the number of
                      \* the announceSign call that pushed it
    speechQueue,      \* the utterances handed to speechSynthesis.speak that
                      \* have not ended yet, in the order they are spoken
    audioTimers,      \* pending setTimeout(() => this.processAudioQueue(), 500)
    audioLog,         \* the entries accepted, spoken and removed so far
    isRecording,      \* App.isRecording
    recordTimers,     \* when the pending auto-stop timeouts of startRecording fire
    recordLog         \* when the recording began, and how the last one ended

\* the audio queue and the recorder
audioVars == << audioEnabled, announcedLabels, audioQueue, speechQueue, audioTimers,
                audioLog >>
recordVars == << isRecording, recordTimers, recordLog >>
pageVars == << audioVars, recordVars >>

\* the detection loop and its two cycles
cycleVars == << isRunning, isPaused, isProcessing, geminiProcessing, lastProcessTime,
                lastGeminiTime, rafPending, fastPending, geminiPending, assocPc,
                fusionPc, fusionQueue, passStore, fastStartedAt, callHistory, loopLast >>

loopVars == << cycleVars, pageVars >>

\* the tracker
trackerVars == << trackedObjects, nextObjectId, cameraMotion, lastGyro, snapshot,
                  passes, last, streak >>

vars == << trackedObjects, nextObjectId, cameraMotion, lastGyro, now, snapshot,
           passes, last, streak, loopVars >>

\* Date.now() when the page loads, counted from which `now` runs: the
\* timestamps lastProcessTime: 0 and lastGeminiTime: 0 lie that far back
DateNowAtLoad == 5000

NoGyro == [alpha |-> NoMatch, beta |-> NoMatch, gamma |-> NoMatch]

Init ==
    /\ trackedObjects = << >>
    /\ nextObjectId = 0
    /\ cameraMotion = [dx |-> 0, dy |-> 0]
    /\ lastGyro = NoGyro
    /\ now = 0
    /\ snapshot = << >>
    /\ passes = 0
    /\ last = [op |-> "none"]
    /\ streak = << >>
    /\ isRunning = FALSE
    /\ isPaused = FALSE
    /\ isProcessing = FALSE
    /\ geminiProcessing = FALSE
    /\ lastProcessTime = 0 - DateNowAtLoad
    /\ lastGeminiTime = 0 - DateNowAtLoad
    /\ rafPending = 0
    /\ fastPending = 0
    /\ geminiPending = 0
    /\ assocPc = "idle"
    /\ fusionPc = "idle"
    /\ fusionQueue = << >>
    /\ passStore = << >>
    /\ fastStartedAt = 0
    /\ callHistory = [fast |-> "none", gemini |-> "none"]
    /\ loopLast = [kind |-> "none"]
    /\ audioEnabled = FALSE
    /\ announcedLabels = {}
    /\ audioQueue = << >>
    /\ speechQueue = << >>
    /\ audioTimers = 0
    /\ audioLog = [accepted |-> 0, spoken |-> << >>, removed |-> << >>]
    /\ isRecording = FALSE
    /\ recordTimers = {}
    /\ recordLog = [kind |-> "none", startedAt |-> 0, ranFor |-> 0]

\* handleDetections(detections, 'fast'), as called when cocoModel.detect
\* resolves in processFrameFast: currentTime = Date.now(),
\* updateTrackedObjects, then the overlay is redrawn.  dt is how far
\* Date.now() has advanced since it was last read.
HandleDetections(detections, dt, limit) ==
    LET currentTime == now + dt
    IN  /\ passes < limit
        /\ currentTime <= MaxTime
        /\ \E r \in { updateTrackedObjects(trackedObjects, nextObjectId, cameraMotion,
                                               detections, currentTime) } :
            /\ r.nextObjectId <= MaxObjects
            /\ now' = currentTime
            /\ trackedObjects' = r.trackedObjects
            /\ nextObjectId' = r.nextObjectId
            /\ snapshot' = DrawnDetections(r.trackedObjects)
            /\ passes' = passes + 1
            /\ last' = [op |-> "fast", detections |-> detections, time |-> currentTime,
                        pre |-> trackedObjects, predicted |-> r.predicted,
                        assoc |-> r.assoc, beforeExpiry |-> r.beforeExpiry,
                        cam |-> cameraMotion]
            /\ streak' = [id \in DOMAIN r.beforeExpiry |->
                             IF /\ id \in DOMAIN trackedObjects
                                /\ \A i \in 1..Len(r.assoc) : r.assoc[i].id # id
                             THEN streak[id] + 1
                             ELSE 0]
            /\ UNCHANGED << cameraMotion, lastGyro, loopVars >>

\* the tail of refineLabelsWithGemini once the response has arrived:
\* data.detections is non-empty, so refineTrackedObjects(data.detections)
\* runs, and nothing else touches the store before the function returns
RefineLabelsWithGemini(geminiDetections, dt, limit) ==
    LET dateNow == now + dt
    IN  /\ passes < limit
        /\ dateNow <= MaxTime
        /\ Len(geminiDetections) > 0
        /\ \E r \in { refineTrackedObjects(trackedObjects, nextObjectId,
                                               geminiDetections, dateNow) } :
            /\ r.nextObjectId <= MaxObjects
            /\ now' = dateNow
            /\ trackedObjects' = r.store
            /\ nextObjectId' = r.nextObjectId
            /\ passes' = passes + 1
            /\ last' = [op |-> "fusion", detections |-> geminiDetections, time |-> dateNow,
                        pre |-> trackedObjects, fused |-> r.fused]
            /\ streak' = [id \in DOMAIN r.store |->
                             IF id \in DOMAIN trackedObjects THEN streak[id] ELSE 0]
            /\ UNCHANGED << cameraMotion, lastGyro, snapshot, loopVars >>

\* the deviceorientation listener of setupMotionSensors (dx, dy in 1/1000:
\* dGamma * 0.01 is dGamma * 10)
DeviceOrientation(gamma, beta) ==
    LET newGyro == [alpha |-> 0, beta |-> beta, gamma |-> gamma]
    IN  /\ lastGyro # newGyro
        /\ cameraMotion' =
             IF lastGyro # NoGyro
             THEN [dx |-> (newGyro.gamma - lastGyro.gamma) * 10,
                   dy |-> (newGyro.beta - lastGyro.beta) * 10]
             ELSE cameraMotion
        /\ lastGyro' = newGyro
        /\ UNCHANGED << trackedObjects, nextObjectId, now, snapshot, passes, last,
                       streak, loopVars >>

\* every batch up to MaxBatch, at the pace of the fast cycle, for a few passes
Next ==
    \/ \E detections \in SeqsUpTo(FastDetections, MaxBatch) :
          HandleDetections(detections, processingInterval, MaxPasses)
    \/ \E geminiDetections \in SeqsUpTo(GeminiDetections, MaxBatch) :
          RefineLabelsWithGemini(geminiDetections, processingInterval, MaxPasses)
    \/ \E gamma \in GyroAngles : DeviceOrientation(gamma, 0)

Spec == Init /\ [][Next]_vars

\* few fast batches, for long enough that tracks expire by missed frames
\* or by age
NextLong ==
    \E detections \in LongFastBatches, dt \in LongTimeSteps :
       HandleDetections(detections, dt, MaxLongPasses)

SpecLong == Init /\ [][NextLong]_vars

\* both cycles across stalls: the fast cycle and Gemini responses, each
\* arriving at once or after a stall
NextStall ==
    \/ \E detections \in LongFastBatches, dt \in LongTimeSteps :
          HandleDetections(detections, dt, MaxStallPasses)
    \/ \E geminiDetections \in LongGeminiBatches, dt \in LongTimeSteps :
          RefineLabelsWithGemini(geminiDetections, dt, MaxStallPasses)

SpecStall == Init /\ [][NextStall]_vars

\* what cocoModel.detect can settle with: a batch (after conversion), or a
\* rejection
LoopFastBatches == { << >>, << StopSign >> }

\* what the /analyze response can carry besides well-formed detections
\* (data.detections is used as JSON.parse returns it): a box component that
\* is not finite (1e999 parses to Infinity; like NaN, it fails every
\* comparison the passes make on it, and is written NaN here), and a
\* confidence above 1
NonFiniteBoxLimit ==
    [label |-> "Speed Limit 25", bbox |-> << NaN, 100, 200, 100 >>, color |-> "green",
     confidence |-> 950]
OverconfidentLimit ==
    [label |-> "Speed Limit 25", bbox |-> << 100, 100, 200, 100 >>, color |-> "green",
     confidence |-> 1500]
MalformedGeminiBatches ==
    { << SpeedLimit >>, << NonFiniteBoxLimit >>, << OverconfidentLimit >> }

\* both cycles at the pace of the fast cycle, the Gemini responses carrying
\* well-formed and malformed detections
NextMalformed ==
    \/ \E detections \in LoopFastBatches :
          HandleDetections(detections, processingInterval, MaxPasses)
    \/ \E geminiDetections \in MalformedGeminiBatches :
          RefineLabelsWithGemini(geminiDetections, processingInterval, MaxPasses)

SpecMalformed == Init /\ [][NextMalformed]_vars

\* a grid cell of detectGenericSigns (50/640 by 50/480) that lies on the stop
\* sign: its centre is 0.044 from the centre of the stop sign's box
GenericOnSign ==
    [label |-> "Analyzing Sign...", bbox |-> << 156, 104, 78, 104 >>, color |-> "red",
     confidence |-> 300]

\* what convertPredictionsToDetections returns from frame to frame when a
\* stop sign is in view: nothing, the stop sign found by COCO-SSD, or only
\* the grid cell found by detectGenericSigns
PaceFastBatches == { << >>, << StopSign >>, << GenericOnSign >> }

\* both cycles at the pace of the fast cycle (a pass every processingInterval
\* ms), for long enough that a track is missed more than maxMissedFrames times
NextPace ==
    \/ \E detections \in PaceFastBatches :
          HandleDetections(detections, processingInterval, MaxPacePasses)
    \/ \E geminiDetections \in LongGeminiBatches :
          RefineLabelsWithGemini(geminiDetections, processingInterval, MaxPacePasses)

SpecPace == Init /\ [][NextPace]_vars

\* the stop sign found further right in the frame
StopSignRight ==
    [label |-> "Stop Sign", bbox |-> << 150, 100, 200, 200 >>, color |-> "red",
     confidence |-> 900]
StopSignFarRight ==
    [label |-> "Stop Sign", bbox |-> << 180, 100, 200, 200 >>, color |-> "red",
     confidence |-> 900]

\* one sign seen at changing places from frame to frame
DriftFastBatches ==
    { << StopSign >>, << ShiftedSignal >>, << StopSignRight >>, << StopSignFarRight >> }

NextDrift ==
    \E detections \in DriftFastBatches :
       HandleDetections(detections, processingInterval, MaxDriftPasses)

SpecDrift == Init /\ [][NextDrift]_vars

\* ----------------------------------------------- floating-point numbers
\* smoothBoundingBox computes old * (1 - alpha) + new * alpha in binary
\* floating point: each of the four operations rounds its exact result to
\* the nearest number with SignificandBits significant bits, ties to even.
\* Numbers are counted in units of 1/One.
RECURSIVE Pow2(_)
Pow2(e) == IF e = 0 THEN 1 ELSE 2 * Pow2(e - 1)

RECURSIVE BitLength(_)
BitLength(n) == IF n = 0 THEN 0 ELSE 1 + BitLength(n \div 2)

One == Pow2(SignificandBits)

\* the floating-point number nearest to n, n >= 0
Fl(n) ==
    IF n < Pow2(SignificandBits) THEN n
    ELSE LET ulp == Pow2(BitLength(n) - SignificandBits)
             q == n \div ulp
             r == n % ulp
         IN  IF 2 * r > ulp \/ (2 * r = ulp /\ q % 2 = 1)
             THEN (q + 1) * ulp
             ELSE q * ulp

\* a * b and a + b, rounded; a is a whole number (a multiple of One), so
\* the exact product is a whole number of units
FlTimes(a, b) == Fl(a * b) \div One
FlPlus(a, b) == Fl(a + b)
FlMinus(a, b) == Fl(a - b)

\* an argument that is undefined
Undefined == << >>

\* smoothBoundingBox on floating-point numbers; alpha in units of 1/One
smoothBoundingBoxFloat(oldBbox, newBbox, alpha) ==
    IF oldBbox = Undefined THEN newBbox
    ELSE [k \in 1..4 |->
            FlPlus(FlTimes(oldBbox[k], FlMinus(One, alpha)),
                   FlTimes(newBbox[k], alpha))]

\* signs whose boxes bring out each part of the matching rule.
\* a wide sign
WideSign ==
    [label |-> "Stop Sign", bbox |-> << 0, 0, 450, 450 >>, color |-> "red",
     confidence |-> 900]
\* the same size 0.3 to the right: IoU exactly 0.2 and centre distance
\* exactly 0.3 with the wide sign, so neither test of the rule passes
WideSignRight ==
    [label |-> "Yield Sign", bbox |-> << 300, 0, 450, 450 >>, color |-> "red",
     confidence |-> 800]
\* a small sign in the middle of the wide one: IoU near 0, centres together
SmallSign ==
    [label |-> "Traffic Signal", bbox |-> << 220, 220, 10, 10 >>, color |-> "yellow",
     confidence |-> 700]

MatchDetections == { StopSign, WideSign, WideSignRight, SmallSign }

NextMatch ==
    \E detections \in SeqsUpTo(MatchDetections, MaxBatch) :
       HandleDetections(detections, processingInterval, MaxMatchPasses)

SpecMatch == Init /\ [][NextMatch]_vars

\* one sign that moves, is lost for many passes, while the device turns
PredictFastBatches == { << >>, << StopSign >>, << StopSignRight >> }

NextPredict ==
    \/ \E detections \in PredictFastBatches :
          HandleDetections(detections, processingInterval, MaxPredictPasses)
    \/ \E gamma \in GyroAngles : DeviceOrientation(gamma, 0)

SpecPredict == Init /\ [][NextPredict]_vars

\* detections around the confidence floor: above it, under it, and exactly
\* on it (the confidence detectGenericSigns gives its regions)
FilterDetections == { StopSign, FaintSignal, GenericOnSign }

NextFilter ==
    \E detections \in SeqsUpTo(FilterDetections, MaxBatch) :
       HandleDetections(detections, processingInterval, MaxFilterPasses)

SpecFilter == Init /\ [][NextFilter]_vars

\* ------------------------------------------------- the geometry helpers
\* calculateIoU and smoothBoundingBox are pure: each action calls one of
\* them on a pair of boxes and records the call in `last`.  A call leaves
\* nothing behind for the next one, so a behaviour makes one call.
GeometryBoxes ==
    { << x, y, w, h >> : x \in {0, 100, 300}, y \in {0, 100},
                         w \in {0, 100, 200}, h \in {0, 100} }

CalculateIoU(bbox1, bbox2) ==
    /\ last.op = "none"
    /\ last' = [op |-> "calculateIoU", bbox1 |-> bbox1, bbox2 |-> bbox2,
                iou |-> calculateIoU(bbox1, bbox2),
                reversed |-> calculateIoU(bbox2, bbox1)]
    /\ UNCHANGED << trackedObjects, nextObjectId, cameraMotion, lastGyro, now,
                    snapshot, passes, streak, loopVars >>

\* boxes of whole floating-point numbers: every x a significand can hold
FloatBoxes ==
    { << x * One, One, 13 * One, 2 * One >> : x \in 0 .. (Pow2(SignificandBits) - 1) }

\* every alpha in [0, 1] that is a multiple of 1/One
FloatAlphas == 0 .. One

SmoothBoundingBox(oldBbox, newBbox, alpha) ==
    /\ last.op = "none"
    /\ last' = [op |-> "smoothBoundingBox", oldBbox |-> oldBbox,
                newBbox |-> newBbox, alpha |-> alpha,
                result |-> smoothBoundingBoxFloat(oldBbox, newBbox, alpha)]
    /\ UNCHANGED << trackedObjects, nextObjectId, cameraMotion, lastGyro, now,
                    snapshot, passes, streak, loopVars >>

NextGeometry ==
    \/ \E bbox1 \in GeometryBoxes, bbox2 \in GeometryBoxes : CalculateIoU(bbox1, bbox2)
    \/ \E oldBbox \in FloatBoxes \cup {Undefined}, newBbox \in FloatBoxes,
          alpha \in FloatAlphas :
          SmoothBoundingBox(oldBbox, newBbox, alpha)

SpecGeometry == Init /\ [][NextGeometry]_vars

\* ---------------------------------------------------------- orchestrator
\* App.config.geminiInterval: 2000 ms between Gemini refinements
geminiInterval == 2000

\* bounds of the exploration of the loop
MaxRaf == 2
MaxLoopEvents == 10
MaxLoopTime == 2100

\* how far Date.now() moves between two events
LoopTimeSteps == { 100, 1900 }

\* how refineLabelsWithGemini can end without a fusion pass: captureFrame
\* resolves with no blob, fetch rejects, the response is not ok, or
\* data.detections is missing or empty
GeminiEndings == { "noBlob", "fetchRejects", "notOk", "noDetections" }

\* a page whose callbacks could start while another one is inside a pass
Preemptible == TRUE

\* updateTrackedObjects, handleDetections and refineTrackedObjects contain
\* no await: once one of them runs, no other callback of the page starts
\* before it has returned
RunToCompletion == assocPc = "idle" /\ fusionPc = "idle"

\* a loop with no minimum interval between ticks
NeverTooEarly(elapsed) == FALSE

\* if (elapsed < this.config.processingInterval): too early for a tick
TooEarly(elapsed) == elapsed < processingInterval

\* a fast cycle that waits for the Gemini request in flight
ShouldStartFastAfterGemini == ~isProcessing /\ ~geminiProcessing

\* a fast cycle with no isProcessing guard
ShouldStartFastUnguarded == TRUE

\* if (!this.isProcessing && this.modelLoaded); modelLoaded is true whenever
\* isRunning is (startDetection returns early otherwise)
ShouldStartFast == ~isProcessing

\* if (geminiElapsed > this.config.geminiInterval && !this.geminiProcessing)
ShouldStartGemini(geminiElapsed) ==
    geminiElapsed > geminiInterval /\ ~geminiProcessing

\* what has become of the calls of a cycle ("fast", "gemini") that failed: the
\* last failed call has ("restarted") or has not yet ("failed") been
\* followed by the start of another call of that cycle
AfterStart(history, startFast, startGemini) ==
    [cycle \in DOMAIN history |->
        IF /\ history[cycle] = "failed"
           /\ \/ cycle = "fast" /\ startFast
              \/ cycle = "gemini" /\ startGemini
        THEN "restarted"
        ELSE history[cycle]]

\* the body of detectionLoop, entered with isRunning = running and
\* isPaused = paused, raf callbacks being queued on entry.
\* processFrameFast and refineLabelsWithGemini run up to their first await
\* inside the call, so the flags are set when detectionLoop goes on.
DetectionLoop(running, paused, raf) ==
    LET elapsed == now - lastProcessTime
        geminiElapsed == now - lastGeminiTime
        startFast == ShouldStartFast
        startGemini == ShouldStartGemini(geminiElapsed)
    IN  IF ~running \/ paused
        THEN /\ rafPending' = raf
             /\ loopLast' = [kind |-> "returned"]
             /\ UNCHANGED << lastProcessTime, lastGeminiTime, isProcessing,
                            geminiProcessing, fastPending, geminiPending, callHistory,
                            fastStartedAt >>
        ELSE IF TooEarly(elapsed)
        THEN /\ rafPending' = raf + 1
             /\ loopLast' = [kind |-> "tooEarly"]
             /\ UNCHANGED << lastProcessTime, lastGeminiTime, isProcessing,
                            geminiProcessing, fastPending, geminiPending, callHistory,
                            fastStartedAt >>
        ELSE /\ lastProcessTime' = now
             /\ callHistory' = AfterStart(callHistory, startFast, startGemini)
             /\ isProcessing' = (isProcessing \/ startFast)
             /\ fastPending' = IF startFast THEN fastPending + 1 ELSE fastPending
             /\ fastStartedAt' = IF startFast THEN now ELSE fastStartedAt
             /\ lastGeminiTime' = IF startGemini THEN now ELSE lastGeminiTime
             /\ geminiProcessing' = (geminiProcessing \/ startGemini)
             /\ geminiPending' = IF startGemini THEN geminiPending + 1 ELSE geminiPending
             /\ rafPending' = raf + 1
             /\ loopLast' = [kind |-> "tick",
                             elapsed |-> elapsed, geminiElapsed |-> geminiElapsed,
                             startedFast |-> startFast, startedGemini |-> startGemini,
                             fastInFlight |-> fastPending,
                             fastCallAge |-> now - fastStartedAt,
                             geminiInFlight |-> geminiPending]

\* startDetection, from the start button (disabled once detection runs)
StartDetection ==
    /\ RunToCompletion
    /\ passes < MaxLoopEvents
    /\ passes' = passes + 1
    /\ ~isRunning
    /\ isRunning' = TRUE
    /\ isPaused' = FALSE
    /\ DetectionLoop(TRUE, FALSE, rafPending)
    /\ UNCHANGED << pageVars, trackedObjects, nextObjectId, cameraMotion, lastGyro, now, snapshot,
                   last, streak, assocPc, fusionPc, fusionQueue, passStore >>

\* togglePause: the pause button; also what the visibilitychange listener
\* and handleDeviceMotion call when detection runs unpaused
TogglePause ==
    /\ RunToCompletion
    /\ passes < MaxLoopEvents
    /\ passes' = passes + 1
    /\ isRunning
    /\ isPaused' = ~isPaused
    /\ IF isPaused
       THEN /\ rafPending < MaxRaf
            /\ DetectionLoop(isRunning, FALSE, rafPending)
       ELSE /\ loopLast' = [kind |-> "paused"]
            /\ UNCHANGED << lastProcessTime, lastGeminiTime, isProcessing,
                           geminiProcessing, fastPending, geminiPending, rafPending,
                           callHistory, fastStartedAt >>
    /\ UNCHANGED << pageVars, trackedObjects, nextObjectId, cameraMotion, lastGyro, now, snapshot,
                   last, streak, isRunning, assocPc, fusionPc, fusionQueue,
                   passStore >>

\* a callback queued with requestAnimationFrame(() => this.detectionLoop())
AnimationFrame ==
    /\ RunToCompletion
    /\ passes < MaxLoopEvents
    /\ passes' = passes + 1
    /\ rafPending > 0
    /\ DetectionLoop(isRunning, isPaused, rafPending - 1)
    /\ UNCHANGED << pageVars, trackedObjects, nextObjectId, cameraMotion, lastGyro, now, snapshot,
                   last, streak, isRunning, isPaused, assocPc, fusionPc,
                   fusionQueue, passStore >>

\* time passes between two callbacks
TimePasses(dt) ==
    /\ RunToCompletion
    /\ passes < MaxLoopEvents
    /\ passes' = passes + 1
    /\ isRunning
    /\ now + dt <= MaxLoopTime
    /\ now' = now + dt
    /\ UNCHANGED << trackedObjects, nextObjectId, cameraMotion, lastGyro, snapshot,
                   last, streak, loopVars >>

\* processFrameFast without its finally: the rejection leaves the flag set
FastDetectorThrowsFlagKept ==
    /\ RunToCompletion
    /\ passes < MaxLoopEvents
    /\ passes' = passes + 1
    /\ fastPending > 0
    /\ fastPending' = fastPending - 1
    /\ loopLast' = [kind |-> "fastThrew", time |-> now, pre |-> trackedObjects]
    /\ callHistory' = [callHistory EXCEPT !.fast = "failed"]
    /\ UNCHANGED << pageVars, fastStartedAt, trackedObjects, nextObjectId, cameraMotion, lastGyro,
                   now, snapshot, last, streak, isRunning, isPaused, isProcessing,
                   geminiProcessing, lastProcessTime, lastGeminiTime, rafPending,
                   geminiPending, assocPc, fusionPc, fusionQueue, passStore >>

\* processFrameFast: await cocoModel.detect(...) rejects; catch logs,
\* finally clears the flag
FastDetectorThrows ==
    /\ RunToCompletion
    /\ passes < MaxLoopEvents
    /\ passes' = passes + 1
    /\ fastPending > 0
    /\ isProcessing' = FALSE
    /\ fastPending' = fastPending - 1
    /\ loopLast' = [kind |-> "fastThrew", time |-> now, pre |-> trackedObjects]
    /\ callHistory' = [callHistory EXCEPT !.fast = "failed"]
    /\ UNCHANGED << pageVars, fastStartedAt, trackedObjects, nextObjectId, cameraMotion, lastGyro, now, snapshot,
                   last, streak, isRunning, isPaused, geminiProcessing,
                   lastProcessTime, lastGeminiTime, rafPending, geminiPending, assocPc,
                   fusionPc, fusionQueue, passStore >>

\* processFrameFast: await cocoModel.detect(...) resolves; handleDetections
\* runs updateTrackedObjects up to, not including, "Remove stale objects"
FastDetectorResolves(detections) ==
    /\ RunToCompletion
    /\ passes < MaxLoopEvents
    /\ passes' = passes + 1
    /\ fastPending > 0
    /\ \E r \in { updateTrackedObjects(trackedObjects, nextObjectId, cameraMotion,
                                       detections, now) } :
          /\ r.nextObjectId <= MaxObjects
          /\ trackedObjects' = r.beforeExpiry
          /\ nextObjectId' = r.nextObjectId
          /\ passStore' = r.beforeExpiry
          /\ loopLast' = [kind |-> "fastResolved"]
    /\ assocPc' = "sweep"
    /\ UNCHANGED << pageVars, fastStartedAt, callHistory, cameraMotion, lastGyro, now, snapshot, last, streak,
                   isRunning, isPaused, isProcessing, geminiProcessing, lastProcessTime,
                   lastGeminiTime, rafPending, fastPending, geminiPending, fusionPc,
                   fusionQueue >>

\* the rest of that call: "Remove stale objects", the redraw of
\* handleDetections, and the finally of processFrameFast
AssociationSweep ==
    /\ assocPc = "sweep"
    /\ trackedObjects' = RemoveStale(trackedObjects, now)
    /\ snapshot' = DrawnDetections(trackedObjects')
    /\ passStore' = trackedObjects'
    /\ assocPc' = "idle"
    /\ isProcessing' = FALSE
    /\ fastPending' = fastPending - 1
    /\ loopLast' = [kind |-> "fastDone"]
    /\ UNCHANGED << pageVars, fastStartedAt, callHistory, nextObjectId, cameraMotion, lastGyro, now, passes, last, streak,
                   isRunning, isPaused, geminiProcessing, lastProcessTime,
                   lastGeminiTime, rafPending, geminiPending, fusionPc, fusionQueue >>

\* refineLabelsWithGemini ends without a fusion pass: return on a missing
\* blob, catch of a rejection or of the Error thrown on !response.ok, or
\* no detections in the response; finally clears the flag
GeminiEnds(how) ==
    /\ RunToCompletion
    /\ passes < MaxLoopEvents
    /\ passes' = passes + 1
    /\ geminiPending > 0
    /\ geminiProcessing' = FALSE
    /\ geminiPending' = geminiPending - 1
    /\ loopLast' = [kind |-> "geminiEnded"]
    /\ callHistory' = IF how = "noDetections" THEN callHistory
                      ELSE [callHistory EXCEPT !.gemini = "failed"]
    /\ UNCHANGED << pageVars, fastStartedAt, trackedObjects, nextObjectId, cameraMotion, lastGyro, now, snapshot,
                   last, streak, isRunning, isPaused, isProcessing,
                   lastProcessTime, lastGeminiTime, rafPending, fastPending, assocPc,
                   fusionPc, fusionQueue, passStore >>

\* refineLabelsWithGemini: response.json() resolves with detections, and
\* refineTrackedObjects(data.detections) is entered
GeminiResolves(geminiDetections) ==
    /\ RunToCompletion
    /\ passes < MaxLoopEvents
    /\ passes' = passes + 1
    /\ geminiPending > 0
    /\ Len(geminiDetections) > 0
    /\ nextObjectId + Len(geminiDetections) <= MaxObjects
    /\ fusionPc' = "forEach"
    /\ fusionQueue' = geminiDetections
    /\ passStore' = trackedObjects
    /\ loopLast' = [kind |-> "geminiResolved"]
    /\ UNCHANGED << pageVars, fastStartedAt, callHistory, trackedObjects, nextObjectId, cameraMotion, lastGyro, now, snapshot,
                   last, streak, isRunning, isPaused, isProcessing,
                   geminiProcessing, lastProcessTime, lastGeminiTime, rafPending,
                   fastPending, geminiPending, assocPc >>

\* one turn of geminiDetections.forEach in refineTrackedObjects
FusionVisit ==
    /\ fusionPc = "forEach"
    /\ fusionQueue # << >>
    /\ \E st \in { FusionStep([store |-> trackedObjects, nextObjectId |-> nextObjectId,
                               fused |-> << >>], Head(fusionQueue), now) } :
          /\ trackedObjects' = st.store
          /\ nextObjectId' = st.nextObjectId
          /\ passStore' = st.store
    /\ fusionQueue' = Tail(fusionQueue)
    /\ UNCHANGED << pageVars, fastStartedAt, callHistory, cameraMotion, lastGyro, now, snapshot, passes, last, streak,
                   isRunning, isPaused, isProcessing, geminiProcessing, lastProcessTime,
                   lastGeminiTime, rafPending, fastPending, geminiPending, assocPc,
                   fusionPc, loopLast >>

\* refineTrackedObjects returns, and the finally of refineLabelsWithGemini
\* clears the flag
FusionReturns ==
    /\ fusionPc = "forEach"
    /\ fusionQueue = << >>
    /\ fusionPc' = "idle"
    /\ geminiProcessing' = FALSE
    /\ geminiPending' = geminiPending - 1
    /\ loopLast' = [kind |-> "geminiDone"]
    /\ UNCHANGED << pageVars, fastStartedAt, callHistory, trackedObjects, nextObjectId, cameraMotion, lastGyro, now, snapshot,
                   passes, last, streak, isRunning, isPaused, isProcessing,
                   lastProcessTime, lastGeminiTime, rafPending, fastPending, assocPc,
                   fusionQueue, passStore >>

NextLoop ==
    \/ StartDetection
    \/ TogglePause
    \/ AnimationFrame
    \/ \E dt \in LoopTimeSteps : TimePasses(dt)
    \/ FastDetectorThrows
    \/ \E detections \in LoopFastBatches : FastDetectorResolves(detections)
    \/ AssociationSweep
    \/ \E how \in GeminiEndings : GeminiEnds(how)
    \/ \E geminiDetections \in LongGeminiBatches : GeminiResolves(geminiDetections)
    \/ FusionVisit
    \/ FusionReturns

SpecLoop == Init /\ [][NextLoop]_vars

\* ------------------------------------------------------------ audio queue
\* labels that refineTrackedObjects and generateAudioFeedback announce
AudioLabels == { "Stop Sign", "Speed Limit 25" }

\* processAudioQueue with speechSynthesis in window: an empty queue returns;
\* otherwise an utterance for audioQueue[0] is handed to
\* speechSynthesis.speak.  The queue itself is left as it is.
processAudioQueue(queue, speech, log) ==
    IF queue = << >>
    THEN [speech |-> speech, log |-> log]
    ELSE [speech |-> Append(speech, Head(queue)),
          log |-> [log EXCEPT !.spoken = Append(@, Head(queue))]]

\* this.audioQueue.shift(), and what it removed
Shift(queue, log) ==
    IF queue = << >>
    THEN [queue |-> queue, log |-> log]
    ELSE [queue |-> Tail(queue),
          log |-> [log EXCEPT !.removed = Append(@, Head(queue))]]

\* toggleAudio; its priming utterance has no handlers and touches no state
ToggleAudio ==
    /\ audioEnabled' = ~audioEnabled
    /\ UNCHANGED << announcedLabels, audioQueue, speechQueue, audioTimers, audioLog,
                    now, trackerVars, cycleVars, recordVars >>

\* announceSign(label), past its two early returns (audio disabled, label
\* announced within the last 10 seconds)
AnnounceSign(label) ==
    /\ audioLog.accepted < MaxAnnounce
    /\ audioEnabled
    /\ label \notin announcedLabels
    /\ announcedLabels' = announcedLabels \cup {label}
    /\ LET entry == [label |-> label, n |-> audioLog.accepted + 1]
           queue == Append(audioQueue, entry)
           log == [audioLog EXCEPT !.accepted = @ + 1]
           r == IF Len(queue) = 1
                THEN processAudioQueue(queue, speechQueue, log)
                ELSE [speech |-> speechQueue, log |-> log]
       IN  /\ audioQueue' = queue
           /\ speechQueue' = r.speech
           /\ audioLog' = r.log
    /\ UNCHANGED << audioEnabled, audioTimers, now, trackerVars, cycleVars, recordVars >>

\* the 10 s timeout of announceSign: this.announcedLabels.delete(label)
CooldownExpires(label) ==
    /\ label \in announcedLabels
    /\ announcedLabels' = announcedLabels \ {label}
    /\ UNCHANGED << audioEnabled, audioQueue, speechQueue, audioTimers, audioLog,
                    now, trackerVars, cycleVars, recordVars >>

\* utterance.onend of the utterance being spoken: shift, then
\* processAudioQueue 500 ms later
UtteranceEnds ==
    /\ speechQueue # << >>
    /\ speechQueue' = Tail(speechQueue)
    /\ LET r == Shift(audioQueue, audioLog)
       IN  /\ audioQueue' = r.queue
           /\ audioLog' = r.log
    /\ audioTimers' = audioTimers + 1
    /\ UNCHANGED << audioEnabled, announcedLabels, now, trackerVars, cycleVars,
                    recordVars >>

\* utterance.onerror of the utterance being spoken: shift, then
\* processAudioQueue at once
UtteranceErrors ==
    /\ speechQueue # << >>
    /\ LET shifted == Shift(audioQueue, audioLog)
           r == processAudioQueue(shifted.queue, Tail(speechQueue), shifted.log)
       IN  /\ audioQueue' = shifted.queue
           /\ speechQueue' = r.speech
           /\ audioLog' = r.log
    /\ UNCHANGED << audioEnabled, announcedLabels, audioTimers, now, trackerVars,
                    cycleVars, recordVars >>

\* the 500 ms timeout set by onend: processAudioQueue
AudioTimerFires ==
    /\ audioTimers > 0
    /\ audioTimers' = audioTimers - 1
    /\ LET r == processAudioQueue(audioQueue, speechQueue, audioLog)
       IN  /\ speechQueue' = r.speech
           /\ audioLog' = r.log
    /\ UNCHANGED << audioEnabled, announcedLabels, audioQueue, now, trackerVars,
                    cycleVars, recordVars >>

NextAudio ==
    \/ ToggleAudio
    \/ \E label \in AudioLabels : AnnounceSign(label)
    \/ \E label \in AudioLabels : CooldownExpires(label)
    \/ UtteranceEnds
    \/ UtteranceErrors
    \/ AudioTimerFires

SpecAudio == Init /\ [][NextAudio]_vars

\* --------------------------------------------------------------- recorder
\* config.recordDuration
recordDuration == 30000

\* startRecording with a camera stream; toggleRecording and the fall
\* detector call it only when isRecording is false.  The auto-stop timeout
\* is set and never cleared.
StartRecording ==
    /\ ~isRecording
    /\ isRecording' = TRUE
    /\ recordTimers' = recordTimers \cup {now + recordDuration}
    /\ recordLog' = [kind |-> "started", startedAt |-> now, ranFor |-> 0]
    /\ UNCHANGED << now, trackerVars, cycleVars, audioVars >>

\* toggleRecording while recording: stopRecording
StopRecording ==
    /\ isRecording
    /\ isRecording' = FALSE
    /\ recordLog' = [recordLog EXCEPT !.kind = "explicit",
                                      !.ranFor = now - recordLog.startedAt]
    /\ UNCHANGED << recordTimers, now, trackerVars, cycleVars, audioVars >>

\* the timeout set by startRecording: if (this.isRecording) this.stopRecording()
RecordTimerFires ==
    /\ \E t \in recordTimers :
          /\ t <= now
          /\ recordTimers' = recordTimers \ {t}
    /\ IF isRecording
       THEN /\ isRecording' = FALSE
            /\ recordLog' = [recordLog EXCEPT !.kind = "timer",
                                             !.ranFor = now - recordLog.startedAt]
       ELSE UNCHANGED << isRecording, recordLog >>
    /\ UNCHANGED << now, trackerVars, cycleVars, audioVars >>

\* time passes, up to the next timeout that is due
RecordingTimePasses ==
    /\ now + RecordStep <= MaxRecordTime
    /\ \A t \in recordTimers : now + RecordStep <= t
    /\ now' = now + RecordStep
    /\ UNCHANGED << trackerVars, cycleVars, pageVars >>

NextRecording ==
    \/ StartRecording
    \/ StopRecording
    \/ RecordTimerFires
    \/ RecordingTimePasses

SpecRecording == Init /\ [][NextRecording]_vars

\* ================================================================ claims
\* the positions of a batch by what the matching loop did with them
Matched(assoc) == { i \in 1..Len(assoc) : assoc[i].kind = "matched" }
Unmatched(assoc) == { i \in 1..Len(assoc) : assoc[i].kind = "unmatched" }
Survivors(detections) ==
    { i \in 1..Len(detections) : detections[i].confidence >= minConfidence }

\* C1: after one association pass no two detections of the batch have been
\* matched to the same track id.
C1_AtMostOneMatchPerTick ==
    last.op = "fast" =>
        \A i, j \in Matched(last.assoc) : i # j => last.assoc[i].id # last.assoc[j].id

\* a pass in which a later detection qualified for a track that an earlier
\* detection of the same batch had already been matched to, and so went
\* elsewhere
C1_Witness ==
    /\ last.op = "fast"
    /\ \E i, j \in 1..Len(last.assoc) :
          /\ i < j
          /\ last.assoc[i].kind = "matched"
          /\ last.assoc[j].kind # "filtered"
          /\ Qualifies(last.detections[j], last.predicted[last.assoc[i].id])
          /\ last.assoc[j].id # last.assoc[i].id

\* C2: every detection that passes the confidence filter either updates
\* exactly one existing track or creates exactly one new track, never both
\* and never neither; before expiry the store has exactly one more track per
\* unmatched surviving detection.
C2_CreationCompleteness ==
    last.op = "fast" =>
        LET assoc == last.assoc
            before == last.beforeExpiry
            created == DOMAIN before \ DOMAIN last.pre
            newIds == SortedIds(created)
            U == SortedIds(Unmatched(assoc))
            updated == { id \in DOMAIN last.pre :
                            before[id].missedFrames = 0 /\ before[id].lastSeen = last.time
                            /\ before[id].matched }
        IN  /\ Len(assoc) = Len(last.detections)
            /\ Matched(assoc) \cup Unmatched(assoc) = Survivors(last.detections)
            /\ DOMAIN last.pre \subseteq DOMAIN before
            /\ \A i \in Matched(assoc) : assoc[i].id \in DOMAIN last.pre
            /\ updated = { assoc[i].id : i \in Matched(assoc) }
            /\ Cardinality(updated) = Cardinality(Matched(assoc))
            /\ Cardinality(created) = Cardinality(Unmatched(assoc))
            /\ \A k \in 1..Len(U) :
                  before[newIds[k]] =
                      NewTrack(newIds[k], last.detections[U[k]], last.time, FALSE)

\* a pass whose batch held both a detection that updated a track and one
\* that created a track
C2_Witness ==
    /\ last.op = "fast"
    /\ Matched(last.assoc) # {}
    /\ Unmatched(last.assoc) # {}
    /\ DOMAIN last.beforeExpiry # DOMAIN last.pre

\* C3: a fast-source match on a track whose geminiRefined is true never
\* changes its label or color (nor clears the lock), whatever else it
\* changes; outside a fusion pass the label of a locked track does not
\* change.
C3_LabelLockRespected ==
    last.op = "fast" =>
        \A id \in DOMAIN last.pre :
            last.pre[id].geminiRefined =>
                /\ last.beforeExpiry[id].label = last.pre[id].label
                /\ last.beforeExpiry[id].color = last.pre[id].color
                /\ last.beforeExpiry[id].geminiRefined

\* a locked track matched by a fast detection of another label: its box,
\* velocity, confidence and lastSeen moved, its label did not
C3_Witness ==
    /\ last.op = "fast"
    /\ \E i \in Matched(last.assoc) :
          LET id == last.assoc[i].id
          IN  /\ last.pre[id].geminiRefined
              /\ last.detections[i].label # last.pre[id].label
              /\ last.beforeExpiry[id].bbox # last.pre[id].bbox
              /\ last.beforeExpiry[id].smoothedBbox # last.pre[id].smoothedBbox
              /\ last.beforeExpiry[id].velocity # last.pre[id].velocity
              /\ last.beforeExpiry[id].confidence # last.pre[id].confidence
              /\ last.beforeExpiry[id].lastSeen # last.pre[id].lastSeen
              /\ id \in DOMAIN trackedObjects

\* the store a fusion pass leaves after its k-th detection
StoreAfterFused(k) ==
    IF k < Len(last.fused) THEN last.fused[k + 1].at ELSE trackedObjects

\* C4: a fusion match changes only the matched track's label, color and
\* lock flag; its boxes, velocity, confidence, lastSeen and missedFrames
\* stay, and no other track is modified.
C4_FusionTouchesOnlyLabel ==
    last.op = "fusion" =>
        \A k \in 1..Len(last.fused) :
            last.fused[k].kind = "upgraded" =>
                LET at == last.fused[k].at
                    after == StoreAfterFused(k)
                    id == last.fused[k].id
                IN  /\ DOMAIN after = DOMAIN at
                    /\ \A other \in DOMAIN at \ {id} : after[other] = at[other]
                    /\ after[id] = [at[id] EXCEPT !.label = after[id].label,
                                                  !.color = after[id].color,
                                                  !.geminiRefined = after[id].geminiRefined]

\* a fusion match that relabelled a track which had moved (its smoothed box
\* is no longer its raw box, its velocity is not zero), next to another
\* track
C4_Witness ==
    /\ last.op = "fusion"
    /\ \E k \in 1..Len(last.fused) :
          LET at == last.fused[k].at
              id == last.fused[k].id
          IN  /\ last.fused[k].kind = "upgraded"
              /\ at[id].label # last.detections[k].label
              /\ StoreAfterFused(k)[id].label = last.detections[k].label
              /\ at[id].smoothedBbox # last.detections[k].bbox
              /\ at[id].smoothedBbox # at[id].bbox
              /\ at[id].velocity # << 0, 0, 0, 0 >>
              /\ DOMAIN at # {id}

\* the largest IoU of a Gemini detection with the smoothed box of a track
\* of store (0 for an empty store)
RECURSIVE SetMax(_)
SetMax(S) ==
    IF S = {} THEN 0
    ELSE LET x == CHOOSE y \in S : TRUE
         IN  Max(x, SetMax(S \ {x}))
BestIoU(geminiDet, store) ==
    SetMax({ calculateIoU(geminiDet.bbox, store[id].smoothedBbox) : id \in DOMAIN store }
           \ {NaN})

\* C5: for each Gemini detection, fusion does exactly one of two things.  If
\* the largest IoU of its box with a track's smoothedBbox is strictly greater
\* than 0.3, it relabels and locks exactly the first track (in store order)
\* attaining that maximum; otherwise (empty store, or no IoU above 0.3) it
\* creates exactly one track, initialised from the detection, locked, with
\* zero velocity and zero missedFrames.
C5_FusionMatchOrCreate ==
    last.op = "fusion" =>
        /\ Len(last.fused) = Len(last.detections)
        /\ \A k \in 1..Len(last.fused) :
              LET at == last.fused[k].at
                  after == StoreAfterFused(k)
                  det == last.detections[k]
                  id == last.fused[k].id
                  best == BestIoU(det, at)
                  attaining == { t \in DOMAIN at :
                                   calculateIoU(det.bbox, at[t].smoothedBbox) = best }
              IN  IF best > fusionThreshold
                  THEN /\ last.fused[k].kind = "upgraded"
                       /\ id \in attaining
                       /\ \A t \in attaining : id <= t
                       /\ DOMAIN after = DOMAIN at
                       /\ after[id].label = det.label
                       /\ after[id].color = det.color
                       /\ after[id].geminiRefined
                  ELSE /\ last.fused[k].kind = "created"
                       /\ id \notin DOMAIN at
                       /\ DOMAIN after = DOMAIN at \cup {id}
                       /\ \A t \in DOMAIN at : after[t] = at[t]
                       /\ after[id] = [ id |-> id, label |-> det.label, bbox |-> det.bbox,
                                        smoothedBbox |-> det.bbox,
                                        predictedBbox |-> det.bbox, color |-> det.color,
                                        confidence |-> det.confidence,
                                        lastSeen |-> last.time,
                                        velocity |-> << 0, 0, 0, 0 >>, missedFrames |-> 0,
                                        matched |-> TRUE, geminiRefined |-> TRUE ]

\* one fusion pass that did both: a detection relabelled a track it
\* overlaps by more than 0.3, and a detection whose best IoU is exactly 0.3
\* created a track
C5_Witness ==
    /\ last.op = "fusion"
    /\ \E k \in 1..Len(last.fused) : last.fused[k].kind = "upgraded"
    /\ \E k \in 1..Len(last.fused) :
          /\ last.fused[k].kind = "created"
          /\ BestIoU(last.detections[k], last.fused[k].at) = fusionThreshold

\* a fusion match decided by the tie rule: two tracks attain the largest
\* IoU, the first was relabelled
C5_TieWitness ==
    /\ last.op = "fusion"
    /\ \E k \in 1..Len(last.fused) :
          LET at == last.fused[k].at
              det == last.detections[k]
          IN  /\ last.fused[k].kind = "upgraded"
              /\ \E t \in DOMAIN at :
                    /\ t # last.fused[k].id
                    /\ calculateIoU(det.bbox, at[t].smoothedBbox) = BestIoU(det, at)

\* "Remove stale objects", the condition under which a track is removed
Expired(obj, currentTime) ==
    currentTime - obj.lastSeen > maxTrackingAge \/ obj.missedFrames > maxMissedFrames

\* C6: expiry boundaries are strict.  On the sweep that ends a pass, a track
\* with missedFrames = maxMissedFrames + 1 is deleted, a track whose age is
\* maxTrackingAge + 1 is deleted, and a track at or below both bounds
\* survives, untouched.
C6_ExpiryBoundaries ==
    last.op = "fast" =>
        \A id \in DOMAIN last.beforeExpiry :
            LET obj == last.beforeExpiry[id]
                age == last.time - obj.lastSeen
            IN  /\ obj.missedFrames >= maxMissedFrames + 1 => id \notin DOMAIN trackedObjects
                /\ age >= maxTrackingAge + 1 => id \notin DOMAIN trackedObjects
                /\ (obj.missedFrames <= maxMissedFrames /\ age <= maxTrackingAge)
                      => (id \in DOMAIN trackedObjects /\ trackedObjects[id] = obj)

\* one sweep that deleted a track of age maxTrackingAge + 1 and kept a track
\* of age exactly maxTrackingAge, both within the missed-frame cap
C6_Witness ==
    /\ last.op = "fast"
    /\ \E a, b \in DOMAIN last.beforeExpiry :
          /\ last.time - last.beforeExpiry[a].lastSeen = maxTrackingAge + 1
          /\ last.beforeExpiry[a].missedFrames <= maxMissedFrames
          /\ a \notin DOMAIN trackedObjects
          /\ last.time - last.beforeExpiry[b].lastSeen = maxTrackingAge
          /\ b \in DOMAIN trackedObjects

\* one sweep that deleted a track with missedFrames = maxMissedFrames + 1 and
\* kept a track with missedFrames = maxMissedFrames, both young enough
C6_MissedFramesWitness ==
    /\ last.op = "fast"
    /\ \E a, b \in DOMAIN last.beforeExpiry :
          /\ last.beforeExpiry[a].missedFrames = maxMissedFrames + 1
          /\ last.time - last.beforeExpiry[a].lastSeen <= maxTrackingAge
          /\ a \notin DOMAIN trackedObjects
          /\ last.beforeExpiry[b].missedFrames = maxMissedFrames
          /\ b \in DOMAIN trackedObjects

\* C7, as claimed: a track that receives no matching detection for
\* maxMissedFrames + 1 consecutive ticks is absent from the store after the
\* last of them, and on each of the ticks 1..maxMissedFrames it is in the
\* store and in the snapshot with isTracked (isPredicted) true.
C7_Original ==
    last.op = "fast" =>
        \A id \in DOMAIN streak :
            /\ streak[id] = maxMissedFrames + 1 => id \notin DOMAIN trackedObjects
            /\ (1 <= streak[id] /\ streak[id] <= maxMissedFrames)
                  => /\ id \in DOMAIN trackedObjects
                     /\ id \in DOMAIN snapshot
                     /\ snapshot[id].isTracked

\* C7, amended: a track that receives no matching detection for
\* maxMissedFrames + 1 consecutive ticks is absent from the store after the
\* last of them.  On a tick 1..maxMissedFrames of the streak it is in the
\* store exactly if its age (currentTime - lastSeen) is still within
\* maxTrackingAge, and then it is in the snapshot, with isTracked true and
\* drawn at its predicted box, exactly if its label does not contain
\* 'Analyzing'.
C7_MissedTicks ==
    last.op = "fast" =>
        \A id \in DOMAIN streak :
            LET obj == last.beforeExpiry[id]
                age == last.time - obj.lastSeen
            IN  /\ streak[id] = maxMissedFrames + 1 => id \notin DOMAIN trackedObjects
                /\ (1 <= streak[id] /\ streak[id] <= maxMissedFrames)
                      => /\ id \in DOMAIN trackedObjects <=> age <= maxTrackingAge
                         /\ id \in DOMAIN snapshot <=>
                               (age <= maxTrackingAge /\ obj.label \notin AnalyzingLabels)
                         /\ id \in DOMAIN snapshot =>
                               /\ snapshot[id].isTracked
                               /\ snapshot[id].bbox = obj.predictedBbox

\* the last tick of such a streak: a drawable track, young enough, has
\* missed maxMissedFrames + 1 ticks in a row and is gone
C7_Witness ==
    /\ last.op = "fast"
    /\ \E id \in DOMAIN streak :
          /\ streak[id] = maxMissedFrames + 1
          /\ last.time - last.beforeExpiry[id].lastSeen <= maxTrackingAge
          /\ last.beforeExpiry[id].label \notin AnalyzingLabels
          /\ id \in DOMAIN last.pre
          /\ id \notin DOMAIN trackedObjects

\* tick maxMissedFrames of such a streak: the track is still drawn, predicted
C7_LastVisibleTick ==
    /\ last.op = "fast"
    /\ \E id \in DOMAIN snapshot : streak[id] = maxMissedFrames /\ snapshot[id].isTracked

\* C8: an association pass over an empty batch neither creates nor deletes a
\* track: when its matching and creation phases are done the store holds the
\* ids it held before; a track leaves the store only through the stale-object
\* sweep, under the expiry rule.
C8_EmptyBatchKeepsIds ==
    (last.op = "fast" /\ last.detections = << >>) =>
        /\ DOMAIN last.beforeExpiry = DOMAIN last.pre
        /\ DOMAIN trackedObjects \subseteq DOMAIN last.pre
        /\ \A id \in DOMAIN last.pre :
              id \notin DOMAIN trackedObjects <=> Expired(last.beforeExpiry[id], last.time)

\* an empty batch on a populated store, at least the second in a row for
\* some track, which is still there
C8_Witness ==
    /\ last.op = "fast"
    /\ last.detections = << >>
    /\ \E id \in DOMAIN trackedObjects :
          /\ id \in DOMAIN last.pre
          /\ last.pre[id].missedFrames >= 1
          /\ trackedObjects[id].missedFrames = last.pre[id].missedFrames + 1

\* C9: after every fast-cycle pass every track in the store has
\* missedFrames <= maxMissedFrames and currentTime - lastSeen <=
\* maxTrackingAge, and the snapshot handleDetections draws holds tracks of
\* that store only.
C9_NoExpiredTrackAfterFastPass ==
    last.op = "fast" =>
        /\ \A id \in DOMAIN trackedObjects :
              /\ trackedObjects[id].missedFrames <= maxMissedFrames
              /\ now - trackedObjects[id].lastSeen <= maxTrackingAge
        /\ \A id \in DOMAIN snapshot :
              /\ id \in DOMAIN trackedObjects
              /\ snapshot[id].label = trackedObjects[id].label

\* a fast pass that removed a track grown too old while another track stayed
\* and was drawn
C9_Witness ==
    /\ last.op = "fast"
    /\ \E id \in DOMAIN last.beforeExpiry :
          /\ last.time - last.beforeExpiry[id].lastSeen > maxTrackingAge
          /\ last.beforeExpiry[id].missedFrames <= maxMissedFrames
          /\ id \notin DOMAIN trackedObjects
    /\ DOMAIN snapshot # {}

C11_Original ==
    loopLast.kind = "fastThrew" =>
        /\ trackedObjects =
              updateTrackedObjects(loopLast.pre, nextObjectId, cameraMotion, << >>,
                                   loopLast.time).trackedObjects
        /\ snapshot = DrawnDetections(trackedObjects)

\* what the code does instead: the store is as it was before the call
C11_StoreUntouched ==
    loopLast.kind = "fastThrew" => trackedObjects = loopLast.pre

\* C12: a failed detector call does not stop the orchestrator.  When the
\* call has ended in a failure the flag of its cycle is false and no call of
\* the cycle is outstanding; the loop still has a callback queued whenever
\* detection runs unpaused; and a tick starts a call of a cycle exactly if
\* none is outstanding (and, for Gemini, its interval has elapsed), whatever
\* failed before.
C12_FailureLeavesCycleFree ==
    /\ loopLast.kind = "fastThrew" => (~isProcessing /\ fastPending = 0)
    /\ loopLast.kind = "geminiEnded" => (~geminiProcessing /\ geminiPending = 0)
    /\ (isRunning /\ ~isPaused /\ RunToCompletion) => rafPending >= 1
    /\ loopLast.kind = "tick" =>
          /\ loopLast.startedFast = (loopLast.fastInFlight = 0)
          /\ loopLast.startedGemini =
                (loopLast.geminiInFlight = 0 /\ loopLast.geminiElapsed > geminiInterval)

\* both cycles have had a call fail, and a later tick has started a new call
\* of each
C12_Witness ==
    /\ callHistory.fast = "restarted"
    /\ callHistory.gemini = "restarted"
    /\ isProcessing
    /\ geminiProcessing

\* C13, as claimed: when a fast detector call does not complete, the ticks
\* after it run as empty batches, expiry included, so no track stays in the
\* store for ever: on a tick that finds the call outstanding for longer than
\* maxTrackingAge, no track older than maxTrackingAge is left in the store.
C13_Original ==
    (loopLast.kind = "tick" /\ loopLast.fastInFlight > 0
                            /\ loopLast.fastCallAge > maxTrackingAge) =>
        \A id \in DOMAIN trackedObjects :
            lastProcessTime - trackedObjects[id].lastSeen <= maxTrackingAge

\* the state the code is left in: the call outstanding, a track in the
\* store older than maxTrackingAge, and the flag still set
C13_StaleUnderHungCall ==
    /\ fastPending > 0
    /\ isProcessing
    /\ \E id \in DOMAIN trackedObjects : now - trackedObjects[id].lastSeen > maxTrackingAge

\* C14: neither cycle blocks the other.  A tick starts a fast call exactly if
\* no fast call is outstanding, also while a Gemini request is in flight; it
\* starts a Gemini request exactly if none is in flight and its interval has
\* elapsed, also while a fast call is outstanding; and the loop keeps a
\* callback queued while calls are outstanding.
C14_NeitherCycleBlocksTheOther ==
    /\ (loopLast.kind = "tick" /\ loopLast.geminiInFlight > 0) =>
          loopLast.startedFast = (loopLast.fastInFlight = 0)
    /\ (loopLast.kind = "tick" /\ loopLast.fastInFlight > 0) =>
          loopLast.startedGemini =
             (loopLast.geminiInFlight = 0 /\ loopLast.geminiElapsed > geminiInterval)
    /\ (isRunning /\ ~isPaused /\ RunToCompletion /\ fastPending + geminiPending > 0)
          => rafPending >= 1

\* a tick that started a fast call while a Gemini request was in flight, the
\* store having been updated by the fast cycle meanwhile
C14_Witness ==
    /\ loopLast.kind = "tick"
    /\ loopLast.geminiInFlight > 0
    /\ loopLast.startedFast
    /\ trackedObjects # << >>

\* a tick that started a Gemini request while a fast call was outstanding
C14_GeminiStartsUnderFastCall ==
    /\ loopLast.kind = "tick"
    /\ loopLast.fastInFlight > 0
    /\ loopLast.startedGemini

\* C16: association and fusion passes never run concurrently against the
\* store.  While handleDetections is between its matching phases and its
\* stale-object sweep no fusion pass is running and the store is as the
\* matching phases left it; while refineTrackedObjects is inside its forEach
\* no association pass is running and the store is as its last turn left it.
C16_PassesAreAtomic ==
    /\ assocPc # "idle" => (fusionPc = "idle" /\ trackedObjects = passStore)
    /\ fusionPc # "idle" => (assocPc = "idle" /\ trackedObjects = passStore)

\* an association pass in the middle, on a populated store, while a Gemini
\* request is in flight whose response could arrive
C16_Witness ==
    /\ assocPc = "sweep"
    /\ geminiPending > 0
    /\ trackedObjects # << >>

\* a fusion pass in the middle while a fast detector call is outstanding
C16_FusionUnderFastCall ==
    /\ fusionPc = "forEach"
    /\ fusionQueue # << >>
    /\ fastPending > 0
    /\ trackedObjects # << >>

\* C17: each cycle is non-reentrant.  At most one cocoModel.detect call and
\* at most one Gemini request are outstanding at any time, and the flag of
\* a cycle is set exactly while its call is outstanding.
C17_CyclesNonReentrant ==
    /\ fastPending <= 1
    /\ geminiPending <= 1
    /\ isProcessing = (fastPending = 1)
    /\ geminiProcessing = (geminiPending = 1)

\* after a pause and a resume two loop callbacks are queued, and a tick
\* found both calls outstanding and started neither again
C17_Witness ==
    /\ rafPending = 2
    /\ loopLast.kind = "tick"
    /\ loopLast.fastInFlight = 1
    /\ loopLast.geminiInFlight = 1
    /\ ~loopLast.startedFast
    /\ ~loopLast.startedGemini
    /\ fastPending = 1
    /\ geminiPending = 1

\* C18: both cycles are rate-bounded.  A tick comes at least
\* processingInterval ms after the tick before it, and a Gemini request is
\* started more than geminiInterval ms after the start of the one before it
\* (lastGeminiTime is the time of that start), whatever callbacks, pauses
\* and resumes come in between.
C18_RateBounded ==
    loopLast.kind = "tick" =>
        /\ loopLast.elapsed >= processingInterval
        /\ loopLast.startedGemini => loopLast.geminiElapsed > geminiInterval
        /\ lastProcessTime - lastGeminiTime >= 0
        /\ loopLast.startedGemini => lastGeminiTime = lastProcessTime

\* with two loop callbacks queued after a pause and a resume, a tick exactly
\* processingInterval after the tick before it, which found no Gemini request
\* in flight, exactly geminiInterval after the last start, and started none
C18_Witness ==
    /\ rafPending = 2
    /\ loopLast.kind = "tick"
    /\ loopLast.elapsed = processingInterval
    /\ loopLast.geminiInFlight = 0
    /\ loopLast.geminiElapsed = geminiInterval
    /\ ~loopLast.startedGemini

\* a second Gemini request, started when more than geminiInterval had passed
C18_SecondGeminiStart ==
    /\ loopLast.kind = "tick"
    /\ loopLast.startedGemini
    /\ loopLast.geminiElapsed > geminiInterval
    /\ loopLast.geminiElapsed < DateNowAtLoad

\* a callback that came too early and only queued the next one
C18_TooEarlyReached == loopLast.kind = "tooEarly" /\ rafPending = 2

\* a detection with a box component that is not finite or a confidence
\* outside [0, 1]
Malformed(detection) ==
    \/ \E k \in 1..4 : detection.bbox[k] = NaN
    \/ detection.confidence < 0
    \/ detection.confidence > Scale

\* C15, as claimed: a malformed detection is rejected at ingestion.  In an
\* association pass it is neither matched nor kept for creation; in a fusion
\* pass the store is after it what it was before it.
C15_Original ==
    /\ last.op = "fast" =>
          \A i \in 1..Len(last.detections) :
              Malformed(last.detections[i]) => last.assoc[i].kind = "filtered"
    /\ last.op = "fusion" =>
          \A k \in 1..Len(last.detections) :
              Malformed(last.detections[k]) => StoreAfterFused(k) = last.fused[k].at

\* what the code does instead: a box that is not finite overlaps nothing,
\* so the fusion pass creates a track from it ...
C15_NonFiniteBoxTracked ==
    /\ last.op = "fusion"
    /\ \E id \in DOMAIN trackedObjects : trackedObjects[id].bbox[1] = NaN

\* ... and a confidence above 1 is never looked at by the fusion pass
C15_OverconfidentTracked ==
    /\ last.op = "fusion"
    /\ \E id \in DOMAIN trackedObjects :
          trackedObjects[id].geminiRefined /\ id \notin DOMAIN last.pre
                                           /\ trackedObjects[id].confidence > Scale

\* the ids a pass handed out, in creation order: a fusion pass records them,
\* an association pass creates a track per unmatched detection, in order
CreatedIds(pass, before) ==
    IF pass.op = "fusion"
    THEN LET created == { k \in 1..Len(pass.fused) : pass.fused[k].kind = "created" }
             order == SortedIds(created)
         IN  [k \in 1..Len(order) |-> pass.fused[order[k]].id]
    ELSE IF pass.op = "fast"
    THEN LET U == SortedIds(Unmatched(pass.assoc))
         IN  [k \in 1..Len(U) |->
                 CHOOSE id \in DOMAIN pass.beforeExpiry \ DOMAIN pass.pre :
                     /\ pass.beforeExpiry[id].bbox = pass.detections[U[k]].bbox
                     /\ Cardinality({ j \in DOMAIN pass.beforeExpiry \ DOMAIN pass.pre :
                                         j < id }) = k - 1]
    ELSE << >>

\* C19: track ids are unique for the lifetime of the process.  Every store
\* key equals the id field of the track under it and lies below
\* nextObjectId; nextObjectId never decreases; the tracks a pass (association
\* or fusion) adds to the store are exactly the ids from the old nextObjectId
\* up to the new one, one per creation and increasing in creation order, so
\* no id is given twice and the id of a deleted track is never given again.
C19_IdsUniqueAndIncreasing ==
    /\ [](\A k \in DOMAIN trackedObjects :
             trackedObjects[k].id = k /\ k < nextObjectId)
    /\ [][ /\ nextObjectId' >= nextObjectId
           /\ DOMAIN trackedObjects' \ DOMAIN trackedObjects
                 = nextObjectId .. (nextObjectId' - 1)
           /\ LET ids == CreatedIds(last', trackedObjects)
              IN  /\ Len(ids) = nextObjectId' - nextObjectId
                  /\ \A k \in 1..Len(ids) : ids[k] = nextObjectId + k - 1 ]_vars

\* a fusion pass created a track after the track of an id handed out
\* earlier had been deleted: the new track has a larger id
C19_Witness ==
    /\ last.op = "fusion"
    /\ \E id \in DOMAIN trackedObjects \ DOMAIN last.pre :
          /\ id = nextObjectId - 1
          /\ \E gone \in 0..(id - 1) : gone \notin DOMAIN last.pre

\* the same in an association pass
C19_FastWitness ==
    /\ last.op = "fast"
    /\ \E id \in DOMAIN trackedObjects \ DOMAIN last.pre :
          /\ id = nextObjectId - 1
          /\ \E gone \in 0..(id - 1) : gone \notin DOMAIN last.pre

\* C20: the label lock is a one-way gate.  A track whose geminiRefined is
\* true keeps it true across every step, association pass or fusion pass,
\* for as long as the track is in the store.
C20_LockIsOneWay ==
    [][ \A id \in DOMAIN trackedObjects \cap DOMAIN trackedObjects' :
           trackedObjects[id].geminiRefined => trackedObjects'[id].geminiRefined ]_vars

\* a locked track went through an association pass that matched a detection
\* to it and through one that matched nothing to it, and is still locked
C20_Witness ==
    /\ last.op = "fast"
    /\ \E i \in Matched(last.assoc) :
          /\ last.pre[last.assoc[i].id].geminiRefined
          /\ last.pre[last.assoc[i].id].missedFrames > 0
          /\ last.assoc[i].id \in DOMAIN trackedObjects
          /\ trackedObjects[last.assoc[i].id].geminiRefined

\* a locked track met by a second Gemini detection is still locked
C20_RelockedWitness ==
    /\ last.op = "fusion"
    /\ \E k \in 1..Len(last.fused) :
          /\ last.fused[k].kind = "upgraded"
          /\ last.fused[k].at[last.fused[k].id].geminiRefined
          /\ trackedObjects[last.fused[k].id].geminiRefined

\* C21, as claimed: in every state left by a pass a track whose
\* missedFrames is 0 has predictedBbox equal to smoothedBbox.
C21_Original ==
    last.op \in { "fast", "fusion" } =>
        \A id \in DOMAIN trackedObjects :
            trackedObjects[id].missedFrames = 0 =>
                trackedObjects[id].predictedBbox = trackedObjects[id].smoothedBbox

\* C21, amended: smoothedBbox is a box for every track.  A track created by
\* the pass has predictedBbox = smoothedBbox; a track that was in the store
\* leaves an association pass with the predictedBbox computed at the start
\* of that pass, also when it was matched (its smoothedBbox has moved on
\* then), and a fusion pass leaves both boxes alone.  The overlay draws a
\* track with missedFrames 0 at its smoothedBbox.
C21_PredictedBoxAfterPass ==
    /\ \A id \in DOMAIN trackedObjects :
          /\ DOMAIN trackedObjects[id].smoothedBbox = 1..4
          /\ \A k \in 1..4 : trackedObjects[id].smoothedBbox[k] \in Int
    /\ last.op = "fast" =>
          \A id \in DOMAIN trackedObjects :
             /\ IF id \in DOMAIN last.pre
                THEN trackedObjects[id].predictedBbox = last.predicted[id].predictedBbox
                ELSE trackedObjects[id].predictedBbox = trackedObjects[id].smoothedBbox
             /\ (trackedObjects[id].missedFrames = 0 /\ id \in DOMAIN snapshot) =>
                   snapshot[id].bbox = trackedObjects[id].smoothedBbox
    /\ last.op = "fusion" =>
          \A id \in DOMAIN trackedObjects :
             IF id \in DOMAIN last.pre
             THEN /\ trackedObjects[id].predictedBbox = last.pre[id].predictedBbox
                  /\ trackedObjects[id].smoothedBbox = last.pre[id].smoothedBbox
             ELSE trackedObjects[id].predictedBbox = trackedObjects[id].smoothedBbox

\* a track matched by a shifted detection: missedFrames 0, smoothedBbox moved
\* towards the detection, predictedBbox still the one computed before the
\* match, and the overlay shows the smoothedBbox
C21_Witness ==
    /\ last.op = "fast"
    /\ \E i \in Matched(last.assoc) :
          LET id == last.assoc[i].id
          IN  /\ id \in DOMAIN snapshot
              /\ trackedObjects[id].missedFrames = 0
              /\ trackedObjects[id].predictedBbox # trackedObjects[id].smoothedBbox
              /\ trackedObjects[id].smoothedBbox # last.pre[id].smoothedBbox
              /\ snapshot[id].bbox = trackedObjects[id].smoothedBbox

\* C22, as claimed, for the store: with the default configuration a track
\* that is no longer detected stays in the store for 2 seconds after its
\* last matching detection.  A track that the stale-object sweep of a pass
\* finds less than maxTrackingAge ms after its last match is in the store
\* after the pass.
C22_Original ==
    last.op = "fast" =>
        \A id \in DOMAIN last.beforeExpiry :
            last.time - last.beforeExpiry[id].lastSeen < maxTrackingAge =>
                id \in DOMAIN trackedObjects

\* what the code does at the default pace: the track is removed by the
\* pass in which it has been missed maxMissedFrames + 1 times,
\* (maxMissedFrames + 1) * processingInterval ms after its last match
C22_RemovedAfterElevenTicks ==
    /\ last.op = "fast"
    /\ \E id \in DOMAIN last.beforeExpiry :
          /\ id \notin DOMAIN trackedObjects
          /\ last.beforeExpiry[id].missedFrames = maxMissedFrames + 1
          /\ last.time - last.beforeExpiry[id].lastSeen
                = (maxMissedFrames + 1) * processingInterval

\* C24, as claimed: once a track has been drawn it is drawn in every later
\* snapshot of the fast cycle for as long as it is in the store.
C24_Original ==
    [][ \A id \in DOMAIN snapshot \cap DOMAIN trackedObjects' :
           id \in DOMAIN snapshot' ]_vars

\* what the code does: a track that was drawn as a stop sign has been
\* matched by a grid cell of the generic detector, carries its label, and is
\* in the store but not on the overlay
C24_HiddenAfterGenericMatch ==
    /\ last.op = "fast"
    /\ \E i \in Matched(last.assoc) :
          LET id == last.assoc[i].id
          IN  /\ last.pre[id].label \notin AnalyzingLabels
              /\ id \in DOMAIN trackedObjects
              /\ trackedObjects[id].label \in AnalyzingLabels
              /\ id \notin DOMAIN snapshot

\* C30: in every state left by a pass each track's missedFrames is the
\* number of consecutive association passes since the pass that last
\* matched or created it, and lies in 0..maxMissedFrames; a fusion pass
\* changes the missedFrames of no track.
C30_MissedFramesCountsPasses ==
    /\ last.op \in { "fast", "fusion" } =>
          \A id \in DOMAIN trackedObjects :
             /\ trackedObjects[id].missedFrames = streak[id]
             /\ trackedObjects[id].missedFrames >= 0
             /\ trackedObjects[id].missedFrames <= maxMissedFrames
    /\ last.op = "fusion" =>
          \A id \in DOMAIN trackedObjects \cap DOMAIN last.pre :
             trackedObjects[id].missedFrames = last.pre[id].missedFrames

\* an association pass left a track that it missed for the
\* maxMissedFrames-th time in a row, a fusion pass having relabelled the
\* track on the way
C30_Witness ==
    /\ last.op = "fast"
    /\ \E id \in DOMAIN trackedObjects :
          /\ trackedObjects[id].missedFrames = maxMissedFrames
          /\ streak[id] = maxMissedFrames
          /\ trackedObjects[id].geminiRefined
          /\ trackedObjects[id].lastSeen < last.time - maxMissedFrames * processingInterval

\* a fusion pass relabelled a track that had been missed several times
C30_FusionWitness ==
    /\ last.op = "fusion"
    /\ \E k \in 1..Len(last.fused) :
          /\ last.fused[k].kind = "upgraded"
          /\ trackedObjects[last.fused[k].id].missedFrames > 2

\* C23, as claimed: pause freezes the detections.  While isPaused stays true
\* no step changes the track store, calls in flight at the moment of the
\* pause included, and no detector call is started.
C23_Original ==
    [][ (isPaused /\ isPaused') =>
           /\ trackedObjects' = trackedObjects
           /\ fastPending' <= fastPending
           /\ geminiPending' <= geminiPending ]_vars

\* what holds of the code: while paused no detector call is started
C23_NoCallStartedWhilePaused ==
    [][ (isPaused /\ isPaused') =>
           (fastPending' <= fastPending /\ geminiPending' <= geminiPending) ]_vars

\* what the code does with a call in flight at the pause: the page is
\* paused, and the association pass of a detector call that has resolved
\* since is at work on the store
C23_PassRunsWhilePaused ==
    /\ isPaused
    /\ assocPc = "sweep"
    /\ trackedObjects # << >>

\* the same for a Gemini response that arrived during the pause
C23_FusionRunsWhilePaused ==
    /\ isPaused
    /\ fusionPc = "forEach"
    /\ fusionQueue = << >>
    /\ \E id \in DOMAIN trackedObjects : trackedObjects[id].geminiRefined

\* C25: association on an empty store.  Every detection of the batch that
\* passes the confidence filter becomes exactly one new track, in batch
\* order, with smoothedBbox = predictedBbox = bbox = the detection's box,
\* velocity (0, 0, 0, 0), missedFrames 0 and geminiRefined false, and all
\* these tracks, and no others, are in the store when the pass returns.
C25_EmptyStoreCreatesOneTrackEach ==
    (last.op = "fast" /\ last.pre = << >>) =>
        LET S == SortedIds(Survivors(last.detections))
            ids == SortedIds(DOMAIN trackedObjects)
        IN  /\ Len(ids) = Len(S)
            /\ trackedObjects = last.beforeExpiry
            /\ \A k \in 1..Len(S) :
                  LET obj == trackedObjects[ids[k]]
                      detection == last.detections[S[k]]
                  IN  /\ obj.id = ids[k]
                      /\ obj.bbox = detection.bbox
                      /\ obj.smoothedBbox = detection.bbox
                      /\ obj.predictedBbox = detection.bbox
                      /\ obj.label = detection.label
                      /\ obj.color = detection.color
                      /\ obj.confidence = detection.confidence
                      /\ obj.lastSeen = last.time
                      /\ obj.velocity = << 0, 0, 0, 0 >>
                      /\ obj.missedFrames = 0
                      /\ ~obj.geminiRefined

\* an empty store met a batch of two overlapping detections that would
\* have qualified for each other's track: two tracks
C25_Witness ==
    /\ last.op = "fast"
    /\ last.pre = << >>
    /\ Len(last.detections) = 2
    /\ last.detections[1].bbox # last.detections[2].bbox
    /\ calculateIoU(last.detections[1].bbox, last.detections[2].bbox) > trackingThreshold
    /\ Cardinality(DOMAIN trackedObjects) = 2

\* an empty store met a batch of which one detection was under the
\* confidence floor: one track
C25_FilteredWitness ==
    /\ last.op = "fast"
    /\ last.pre = << >>
    /\ Len(last.detections) = 2
    /\ Cardinality(Survivors(last.detections)) = 1
    /\ Cardinality(DOMAIN trackedObjects) = 1

\* C29: an association pass leaves every track that it does not match as
\* it was, except for missedFrames, which is one more, and predictedBbox:
\* label, color, confidence, bbox, smoothedBbox, velocity, lastSeen and
\* geminiRefined are those of before the pass.
C29_UnmatchedTrackFrame ==
    last.op = "fast" =>
        \A id \in DOMAIN last.pre :
            (\A i \in Matched(last.assoc) : last.assoc[i].id # id) =>
                LET old == last.pre[id]
                    new == last.beforeExpiry[id]
                IN  /\ new.missedFrames = old.missedFrames + 1
                    /\ new.id = old.id
                    /\ new.label = old.label
                    /\ new.color = old.color
                    /\ new.confidence = old.confidence
                    /\ new.bbox = old.bbox
                    /\ new.smoothedBbox = old.smoothedBbox
                    /\ new.velocity = old.velocity
                    /\ new.lastSeen = old.lastSeen
                    /\ new.geminiRefined = old.geminiRefined
                    /\ id \in DOMAIN trackedObjects => trackedObjects[id] = new

\* a moving track, missed by a pass whose batch was not empty: its
\* predictedBbox has left its smoothedBbox, the rest is as before
C29_Witness ==
    /\ last.op = "fast"
    /\ last.detections # << >>
    /\ \E id \in DOMAIN last.pre \cap DOMAIN trackedObjects :
          /\ \A i \in Matched(last.assoc) : last.assoc[i].id # id
          /\ trackedObjects[id].velocity # << 0, 0, 0, 0 >>
          /\ trackedObjects[id].predictedBbox # last.pre[id].predictedBbox
          /\ trackedObjects[id].predictedBbox # trackedObjects[id].smoothedBbox

\* C26, as claimed: when a detection whose box lies to the right of the
\* track's box (raw and smoothed) is matched to the track, the track's
\* velocity.dx is > 0 after the match and its new smoothedBbox.x lies
\* strictly between the old smoothedBbox.x and the detection's x.
C26_Original ==
    last.op = "fast" =>
        \A i \in Matched(last.assoc) :
            LET old == last.pre[last.assoc[i].id]
                new == last.beforeExpiry[last.assoc[i].id]
                x == last.detections[i].bbox[1]
            IN  (x > old.bbox[1] /\ x > old.smoothedBbox[1]) =>
                    /\ new.velocity[1] > 0
                    /\ old.smoothedBbox[1] < new.smoothedBbox[1]
                    /\ new.smoothedBbox[1] < x

\* C26, amended: the velocity after a match is 0.7 of the old velocity plus
\* 0.3 of the shift from the old raw box, so a detection to the right of
\* the raw box makes velocity.dx > 0 if the old velocity.dx was not negative
\* (as for a track just created); and the new smoothedBbox.x lies strictly
\* between the old smoothedBbox.x and the detection's x whenever these
\* differ, on either side: a match never snaps the box onto the detection.
\* (Positions one unit of the grid apart are left out: the grid cannot
\* show a point strictly between them.)
C26_ShiftedMatch ==
    last.op = "fast" =>
        \A i \in Matched(last.assoc) :
            LET old == last.pre[last.assoc[i].id]
                new == last.beforeExpiry[last.assoc[i].id]
                x == last.detections[i].bbox[1]
            IN  /\ new.id = old.id
                /\ DOMAIN last.beforeExpiry = DOMAIN last.pre
                /\ new.velocity[1] =
                      RoundDiv(7 * old.velocity[1] + 3 * (x - old.bbox[1]), 10)
                /\ (x > old.bbox[1] /\ old.velocity[1] >= 0) => new.velocity[1] > 0
                /\ \E alpha \in smoothingFactor .. maxSmoothingFactor :
                      new.smoothedBbox =
                          smoothBoundingBox(old.smoothedBbox, last.detections[i].bbox, alpha)
                /\ x > old.smoothedBbox[1] + 1 =>
                      (old.smoothedBbox[1] < new.smoothedBbox[1] /\ new.smoothedBbox[1] < x)
                /\ x < old.smoothedBbox[1] - 1 =>
                      (x < new.smoothedBbox[1] /\ new.smoothedBbox[1] < old.smoothedBbox[1])

\* the scenario of the claim: a track created at x = 0.1, at rest, matched
\* by a detection at x = 0.12; velocity.dx > 0, smoothedBbox.x between
C26_Witness ==
    /\ last.op = "fast"
    /\ \E i \in Matched(last.assoc) :
          LET old == last.pre[last.assoc[i].id]
              new == last.beforeExpiry[last.assoc[i].id]
          IN  /\ old.velocity = << 0, 0, 0, 0 >>
              /\ old.smoothedBbox[1] = 100
              /\ last.detections[i].bbox[1] = 120
              /\ new.velocity[1] > 0
              /\ new.smoothedBbox[1] > 100
              /\ new.smoothedBbox[1] < 120

\* a track moving left, matched by a detection to the right of its box:
\* velocity.dx is still negative after the match
C26_StillMovingLeft ==
    /\ last.op = "fast"
    /\ \E i \in Matched(last.assoc) :
          LET old == last.pre[last.assoc[i].id]
              new == last.beforeExpiry[last.assoc[i].id]
              x == last.detections[i].bbox[1]
          IN  /\ x > old.bbox[1]
              /\ x > old.smoothedBbox[1]
              /\ old.velocity[1] < 0
              /\ new.velocity[1] < 0

\* C27, as claimed: for all boxes a and b, zero-area boxes and boxes that
\* touch at an edge included, IoU(a, a) = 1, IoU(a, b) = 0 when a and b
\* have no point in common, IoU(a, b) = IoU(b, a), and the result is a
\* number within [0, 1].
C27_Original ==
    last.op = "calculateIoU" =>
        LET a == last.bbox1
            b == last.bbox2
        IN  /\ last.iou = last.reversed
            /\ last.iou # NaN
            /\ last.iou >= 0
            /\ last.iou <= Micro
            /\ a = b => last.iou = Micro
            /\ (a[1] + a[3] < b[1] \/ b[1] + b[3] < a[1]
                   \/ a[2] + a[4] < b[2] \/ b[2] + b[4] < a[2]) => last.iou = 0

\* calculateIoU of a zero-area box with itself is 0 / 0
C27_NaNOnZeroArea ==
    /\ last.op = "calculateIoU"
    /\ last.bbox1 = last.bbox2
    /\ last.bbox1[3] * last.bbox1[4] = 0
    /\ last.iou = NaN

\* C28, as claimed: for every alpha in [0, 1] the result of
\* smoothBoundingBox(old, new, alpha) lies, component by component, between
\* old and new inclusive; alpha = 0 returns old, alpha = 1 returns new, and
\* an undefined old box returns new unchanged.
C28_Original ==
    last.op = "smoothBoundingBox" =>
        IF last.oldBbox = Undefined THEN last.result = last.newBbox
        ELSE /\ \A k \in 1..4 :
                   /\ Min(last.oldBbox[k], last.newBbox[k]) <= last.result[k]
                   /\ last.result[k] <= Max(last.oldBbox[k], last.newBbox[k])
             /\ last.alpha = 0 => last.result = last.oldBbox
             /\ last.alpha = One => last.result = last.newBbox

\* smoothing a box towards a box with the same x gives another x
C28_RoundedOutside ==
    /\ last.op = "smoothBoundingBox"
    /\ last.oldBbox # Undefined
    /\ last.oldBbox[1] = last.newBbox[1]
    /\ last.result[1] # last.oldBbox[1]

\* what of C28 the rounding leaves standing: the ends of the range of
\* alpha, the undefined old box, and the bounds for boxes that differ
C28_ExactAtTheEnds ==
    last.op = "smoothBoundingBox" =>
        IF last.oldBbox = Undefined THEN last.result = last.newBbox
        ELSE /\ \A k \in 1..4 :
                   last.oldBbox[k] # last.newBbox[k] =>
                       /\ Min(last.oldBbox[k], last.newBbox[k]) <= last.result[k]
                       /\ last.result[k] <= Max(last.oldBbox[k], last.newBbox[k])
             /\ last.alpha = 0 => last.result = last.oldBbox
             /\ last.alpha = One => last.result = last.newBbox

\* the tracks that the detections before position i of the batch were
\* matched to
TakenBefore(assoc, i) ==
    { assoc[k].id : k \in { n \in 1..(i - 1) : assoc[n].kind = "matched" } }

C31_EarlierTookAnother ==
    /\ last.op = "fast"
    /\ \E i, j \in Survivors(last.detections), t \in DOMAIN last.predicted :
          /\ i < j
          /\ t \notin TakenBefore(last.assoc, i)
          /\ Qualifies(last.detections[i], last.predicted[t])
          /\ Qualifies(last.detections[j], last.predicted[t])
          /\ last.assoc[i].kind = "matched"
          /\ last.assoc[i].id # t
          /\ last.assoc[j].id = t

\* the tracks free for the detection at position i of the batch that it
\* qualifies for
Candidates(i) ==
    { t \in DOMAIN last.predicted \ TakenBefore(last.assoc, i) :
        Qualifies(last.detections[i], last.predicted[t]) }

C32_TieWitness ==
    /\ last.op = "fast"
    /\ \E i \in Matched(last.assoc), u \in DOMAIN last.predicted :
          /\ u \in Candidates(i)
          /\ u > last.assoc[i].id
          /\ MatchScore(last.detections[i], last.predicted[u])
                = MatchScore(last.detections[i], last.predicted[last.assoc[i].id])

\* a match by centre distance alone, and a miss with a free track in store
C32_DistanceOnlyWitness ==
    /\ last.op = "fast"
    /\ \E i \in Matched(last.assoc) :
          ~Less(trackingThreshold,
                MatchIoU(last.detections[i], last.predicted[last.assoc[i].id]))
    /\ \E i \in Unmatched(last.assoc) :
          DOMAIN last.predicted \ TakenBefore(last.assoc, i) # {}

\* the one-step extrapolation of a track under camera motion cam
Extrapolated(obj, cam) ==
    << obj.smoothedBbox[1] + obj.velocity[1] - cam.dx,
       obj.smoothedBbox[2] + obj.velocity[2] - cam.dy,
       obj.smoothedBbox[3] + RoundDiv(obj.velocity[3], 2),
       obj.smoothedBbox[4] + RoundDiv(obj.velocity[4], 2) >>

\* C33, the predict phase of one pass: every track's missedFrames is
\* incremented, and its predictedBbox is smoothedBbox + velocity -
\* cameraMotion (size change halved) when the incremented count is within
\* maxMissedFrames and smoothedBbox otherwise; smoothedBbox and velocity are
\* left as they were.
C33_PredictPhaseOfPass ==
    last.op = "fast" =>
        /\ DOMAIN last.predicted = DOMAIN last.pre
        /\ \A id \in DOMAIN last.pre :
              LET old == last.pre[id]
                  new == last.predicted[id]
              IN  /\ new.missedFrames = old.missedFrames + 1
                  /\ new.smoothedBbox = old.smoothedBbox
                  /\ new.velocity = old.velocity
                  /\ new.predictedBbox =
                        IF old.missedFrames + 1 <= maxMissedFrames
                        THEN Extrapolated(old, last.cam)
                        ELSE old.smoothedBbox

\* C33, over consecutive passes: a track that the previous fast pass left
\* unmatched gets, under the same cameraMotion, the predictedBbox it had
\* (while its count is within maxMissedFrames): the extrapolation does not
\* accumulate.
C33_SameExtrapolation ==
    (last'.op = "fast" /\ last.op = "fast" /\ last' # last /\ last'.cam = last.cam) =>
        \A id \in DOMAIN last'.pre :
            ( /\ last'.pre[id].missedFrames >= 1
              /\ last'.pre[id].missedFrames + 1 <= maxMissedFrames )
            => last'.predicted[id].predictedBbox = last'.pre[id].predictedBbox

\* C33: the predict phase increments missedFrames first and then sets
\* predictedBbox to the one-step extrapolation from smoothedBbox, or to
\* smoothedBbox once the incremented count exceeds maxMissedFrames; over
\* consecutive missed passes with unchanged cameraMotion the predictedBbox
\* stays the same.
C33_PredictDoesNotAccumulate ==
    []C33_PredictPhaseOfPass /\ [][C33_SameExtrapolation]_vars

\* a moving track, under camera motion, missed for the second pass or more:
\* its predictedBbox is away from its smoothedBbox and the same as the pass
\* before
C33_Witness ==
    /\ last.op = "fast"
    /\ last.cam.dx # 0
    /\ \E id \in DOMAIN last.pre :
          /\ last.pre[id].missedFrames >= 1
          /\ last.pre[id].velocity[1] # 0
          /\ last.predicted[id].predictedBbox # last.predicted[id].smoothedBbox
          /\ last.predicted[id].predictedBbox = last.pre[id].predictedBbox
          /\ last.beforeExpiry[id].missedFrames = last.pre[id].missedFrames + 1

\* the pass in which the count passes maxMissedFrames: predictedBbox falls
\* back from the extrapolation to smoothedBbox
C33_FallbackWitness ==
    /\ last.op = "fast"
    /\ \E id \in DOMAIN last.pre :
          /\ last.predicted[id].missedFrames = maxMissedFrames + 1
          /\ last.pre[id].predictedBbox # last.pre[id].smoothedBbox
          /\ last.predicted[id].predictedBbox = last.pre[id].smoothedBbox

\* a batch without its detection at position i
WithoutPosition(detections, i) ==
    SubSeq(detections, 1, i - 1) \o SubSeq(detections, i + 1, Len(detections))

\* C34: a detection whose confidence is below minConfidence has no effect
\* on an association pass: the pass leaves the store (and nextObjectId) that
\* the same batch without that detection would have left; a detection whose
\* confidence is exactly minConfidence is not filtered.
C34_FaintDetectionHasNoEffect ==
    [][ (last'.op = "fast" /\ last' # last) =>
          /\ \A i \in 1..Len(last'.detections) :
                last'.detections[i].confidence < minConfidence =>
                    LET r == updateTrackedObjects(trackedObjects, nextObjectId, cameraMotion,
                                 WithoutPosition(last'.detections, i), last'.time)
                    IN  /\ r.trackedObjects = trackedObjects'
                        /\ r.nextObjectId = nextObjectId'
                        /\ last'.assoc[i].kind = "filtered"
          /\ \A i \in 1..Len(last'.detections) :
                last'.detections[i].confidence = minConfidence =>
                    /\ last'.assoc[i].kind \in {"matched", "unmatched"}
                    /\ \E id \in DOMAIN last'.beforeExpiry :
                          /\ last'.beforeExpiry[id].bbox = last'.detections[i].bbox
                          /\ last'.beforeExpiry[id].lastSeen = last'.time ]_vars

\* a faint detection ahead of a strong one in the batch, both on the track
\* of the store: the strong one is matched to the track as if alone
C34_Witness ==
    /\ last.op = "fast"
    /\ Len(last.detections) = 2
    /\ last.detections[1].confidence < minConfidence
    /\ last.assoc[1].kind = "filtered"
    /\ \E id \in DOMAIN last.predicted :
          /\ Qualifies(last.detections[1], last.predicted[id])
          /\ last.assoc[2] = [kind |-> "matched", id |-> id]

\* a detection with confidence exactly minConfidence creates a track
C34_AtThresholdWitness ==
    /\ last.op = "fast"
    /\ \E i \in Unmatched(last.assoc) :
          /\ last.detections[i].confidence = minConfidence
          /\ \E id \in DOMAIN trackedObjects \ DOMAIN last.pre :
                trackedObjects[id].confidence = minConfidence

\* C35, as claimed: at any time at most one detectionLoop continuation is
\* queued with requestAnimationFrame, whatever the sequence of start, pause
\* and resume events.
C35_Original == rafPending <= 1

\* detection runs unpaused with two detectionLoop callbacks queued: the one
\* that was queued before the pause and the one queued by the resume
C35_TwoChainsRunning ==
    /\ isRunning
    /\ ~isPaused
    /\ rafPending = 2
    /\ loopLast.kind \in {"tick", "tooEarly"}

\* C36, as claimed: every label accepted into audioQueue is spoken exactly
\* once and in enqueue order: no entry is handed to speechSynthesis twice,
\* none is removed from the queue without having been handed to it, and the
\* entries are spoken in the order they were accepted.
C36_Original ==
    /\ \A i, j \in 1..Len(audioLog.spoken) :
          i # j => audioLog.spoken[i] # audioLog.spoken[j]
    /\ \A k \in 1..Len(audioLog.removed) :
          \E i \in 1..Len(audioLog.spoken) : audioLog.spoken[i] = audioLog.removed[k]
    /\ \A i, j \in 1..Len(audioLog.spoken) :
          i < j => audioLog.spoken[i].n <= audioLog.spoken[j].n

\* one accepted label handed to speechSynthesis twice
C36_SpokenTwice ==
    \E i, j \in 1..Len(audioLog.spoken) :
        i < j /\ audioLog.spoken[i] = audioLog.spoken[j]

\* an accepted label removed from the queue that was never handed to
\* speechSynthesis
C36_RemovedUnspoken ==
    \E k \in 1..Len(audioLog.removed) :
        \A i \in 1..Len(audioLog.spoken) : audioLog.spoken[i] # audioLog.removed[k]

\* C37, as claimed: a recording is stopped only by an explicit stop or by
\* its own 30 s timer: whenever an auto-stop timer stops a recording, that
\* recording has run for recordDuration.
C37_Original ==
    recordLog.kind = "timer" => recordLog.ranFor >= recordDuration

\* a recording stopped by the timer of an earlier recording, before it has
\* run for recordDuration
C37_StoppedByEarlierTimer ==
    /\ recordLog.kind = "timer"
    /\ recordLog.ranFor < recordDuration
    /\ ~isRecording

\* C38: fusion never keeps a track alive.  A track that carries a refined
\* label is in the store only while the association passes that missed it
\* in a row since it was created or last matched are at most
\* maxMissedFrames, however many fusion passes matched it meanwhile; and a
\* fusion pass leaves the missedFrames and the lastSeen of every track it
\* finds in the store as they were, and removes no track.
C38_RefinedTracksExpire ==
    \A id \in DOMAIN trackedObjects :
       trackedObjects[id].geminiRefined => streak[id] <= maxMissedFrames

C38_FusionCountsAsNoSighting ==
    (passes' = passes + 1 /\ last'.op = "fusion") =>
       \A id \in DOMAIN trackedObjects :
          /\ id \in DOMAIN trackedObjects'
          /\ trackedObjects'[id].missedFrames = trackedObjects[id].missedFrames
          /\ trackedObjects'[id].lastSeen = trackedObjects[id].lastSeen
          /\ streak'[id] = streak[id]

C38_FusionNeverKeepsAlive ==
    []C38_RefinedTracksExpire /\ [][C38_FusionCountsAsNoSighting]_vars

\* an association pass deleted a track with a refined label that no fast
\* detection had matched, on the (maxMissedFrames + 1)-th pass in a row that
\* missed it
C38_Witness ==
    /\ last.op = "fast"
    /\ \E id \in DOMAIN last.pre :
          /\ last.pre[id].geminiRefined
          /\ last.pre[id].missedFrames = maxMissedFrames
          /\ id \in DOMAIN last.beforeExpiry
          /\ last.beforeExpiry[id].missedFrames = maxMissedFrames + 1
          /\ id \notin DOMAIN trackedObjects

\* a fusion pass matched a track on its last life and left its count and
\* its lastSeen alone
C38_FusedOnItsLastLife ==
    /\ last.op = "fusion"
    /\ \E k \in 1..Len(last.fused) :
          /\ last.fused[k].kind = "upgraded"
          /\ last.pre[last.fused[k].id].missedFrames = maxMissedFrames
          /\ trackedObjects[last.fused[k].id].missedFrames = maxMissedFrames
          /\ trackedObjects[last.fused[k].id].lastSeen < last.time

\* a track that the sweep of a pass at currentTime removes unless the pass
\* matches it: too old already, or on its last allowed miss
Overdue(obj, currentTime) ==
    currentTime - obj.lastSeen > maxTrackingAge \/ obj.missedFrames >= maxMissedFrames

\* C39: expiry is evaluated only after matching.  A track matched by a pass
\* is in the store after the pass with lastSeen = currentTime and
\* missedFrames = 0, whatever its age and count when the pass began; an
\* overdue track that is the one candidate of a surviving detection is
\* matched and retained; and every track a pass removes was left unmatched
\* by it.
C39_ExpiryAfterMatching ==
    last.op = "fast" =>
       /\ \A i \in Matched(last.assoc) :
             LET id == last.assoc[i].id
             IN  /\ id \in DOMAIN trackedObjects
                 /\ trackedObjects[id].lastSeen = last.time
                 /\ trackedObjects[id].missedFrames = 0
       /\ \A id \in DOMAIN last.pre :
             (/\ Overdue(last.pre[id], last.time)
              /\ \E i \in Survivors(last.detections) : Candidates(i) = {id})
             => /\ id \in DOMAIN trackedObjects
                /\ trackedObjects[id].lastSeen = last.time
                /\ trackedObjects[id].missedFrames = 0
       /\ \A id \in DOMAIN last.pre \ DOMAIN trackedObjects :
             \A i \in Matched(last.assoc) : last.assoc[i].id # id

\* a track older than maxTrackingAge when the pass began, matched by the
\* pass and retained
C39_Witness ==
    /\ last.op = "fast"
    /\ \E i \in Matched(last.assoc) :
          LET id == last.assoc[i].id
          IN  /\ last.time - last.pre[id].lastSeen > maxTrackingAge
              /\ id \in DOMAIN trackedObjects
              /\ trackedObjects[id].lastSeen = last.time
              /\ trackedObjects[id].missedFrames = 0

\* a track with missedFrames = maxMissedFrames when the pass began, which
\* the predict phase took past the bound, matched by the pass and retained
C39_LastMissWitness ==
    /\ last.op = "fast"
    /\ \E i \in Matched(last.assoc) :
          LET id == last.assoc[i].id
          IN  /\ last.pre[id].missedFrames = maxMissedFrames
              /\ last.predicted[id].missedFrames > maxMissedFrames
              /\ id \in DOMAIN trackedObjects
              /\ trackedObjects[id].missedFrames = 0

\* a pass that matched one track and removed another, overdue and unmatched
C39_RemovalWitness ==
    /\ last.op = "fast"
    /\ Matched(last.assoc) # {}
    /\ \E id \in DOMAIN last.pre \ DOMAIN trackedObjects :
          Overdue(last.pre[id], last.time)

\* C40: within one association pass no detection is matched to a track
\* created earlier in the same pass: every match is to a track that was in
\* the store when the pass began, a detection whose box coincides with that
\* of an earlier unmatched detection is unmatched too, and the pass creates
\* as many tracks as it left detections unmatched.  Within one fusion batch
\* a refined detection that overlaps a track created for an earlier
\* detection of the batch is fused into a track of the live store and
\* creates none.
C40_CreatedTracksSeenByFusionOnly ==
    /\ last.op = "fast" =>
          /\ \A i \in Matched(last.assoc) : last.assoc[i].id \in DOMAIN last.pre
          /\ \A i, j \in Survivors(last.detections) :
                (/\ i < j
                 /\ last.detections[i].bbox = last.detections[j].bbox
                 /\ last.assoc[i].kind = "unmatched")
                => last.assoc[j].kind = "unmatched"
          /\ Cardinality(DOMAIN last.beforeExpiry \ DOMAIN last.pre)
                = Cardinality(Unmatched(last.assoc))
    /\ last.op = "fusion" =>
          \A j, k \in 1..Len(last.fused) :
             (/\ j < k
              /\ last.fused[j].kind = "created"
              /\ Less(fusionThreshold, calculateIoU(last.detections[k].bbox,
                                                    last.detections[j].bbox)))
             => /\ last.fused[k].kind = "upgraded"
                /\ last.fused[k].id \in DOMAIN last.fused[k].at

\* two detections with the same box, both unmatched, for which one
\* association pass created two tracks with that box
C40_Witness ==
    /\ last.op = "fast"
    /\ \E i, j \in Unmatched(last.assoc) :
          /\ i < j
          /\ last.detections[i].bbox = last.detections[j].bbox
          /\ \E a, b \in DOMAIN trackedObjects \ DOMAIN last.pre :
                /\ a # b
                /\ trackedObjects[a].bbox = last.detections[i].bbox
                /\ trackedObjects[b].bbox = last.detections[j].bbox

\* a refined detection fused into the track that an earlier detection of
\* the same fusion batch created
C40_FusionWitness ==
    /\ last.op = "fusion"
    /\ \E j, k \in 1..Len(last.fused) :
          /\ j < k
          /\ last.fused[j].kind = "created"
          /\ last.fused[k].kind = "upgraded"
          /\ last.fused[k].id = last.fused[j].id
          /\ last.fused[k].id \notin DOMAIN last.pre

====
